---- MODULE Spec2Model ----
(***************************************************************************)
(* Model of the Adapt framework import orchestrator                        *)
(* (src/lib/AdaptFrameworkImport.js): the stage pipeline of import(), the  *)
(* compensating rollback of cleanUp() and the level sort of                *)
(* getSortedData().                                                        *)
(***************************************************************************)
EXTENDS Integers, Sequences, FiniteSets, TLC

(***************************************************************************)
(* Bounds of the model                                                     *)
(***************************************************************************)
\* largest number of content objects of a package handed to getSortedData
MaxObjs == 4
\* largest number of content objects of the sets the termination of the sort is checked on
MaxLoopObjs == 3
\* cap on the number of levels the sort loop may build (never reached by the code)
MaxLevels == 7
\* largest number of plugins, assets, tags and content objects of the package of an import run
MaxItems == 2
\* largest number of collaborator calls that fail within one stage or within one cleanUp
MaxFaults == 1
\* largest plugin version (v stands for the semver version v.0.0)
MaxVersion == 2
\* largest number of plugins of the packages the plugin stage is checked on
MaxPlugins == 2
\* largest number of content objects of the packages the content stage is checked on
MaxDocs == 3
\* number of tag titles the request, the package and the tag store draw from
MaxTitles == 2
\* depth of the objects nested in a document handed to a content migration
MaxNest == 2
\* length of the arrays of such a document
MaxArr == 1
\* the build records, the latest time of the clock and the concurrent requests of the build handler
MaxBuilds == 2
MaxTime == 2
MaxRequests == 2

(***************************************************************************)
(* Values                                                                  *)
(***************************************************************************)
\* the JavaScript value undefined
Undefined == "undefined"
\* _id of the course document of the package
CourseId == 0
\* a _parentId that is the _id of no document of the package
GhostId == 99

\* _id of the config document (loadContentFile sets _id: 'config')
ConfigId == 98
\* a missing _id
NoId == -1
\* the name 'core' in pluginsToMigrate
CorePlugin == 0
\* a plugin version that is not valid semver
InvalidVersion == -1
\* the version of a plugin the registry does not hold (undefined)
NoVersion == -2
\* no static helper has been called
NoUtil == [fn |-> "none", args |-> <<>>, out |-> "none"]
\* no error caught by import()
NoError == "none"

VARIABLES
  settings,      \* this.settings, captured by the constructor
  disk,          \* the unpacked package and the framework directory on disk
  server,        \* live server state: plugin registry, tag store, asset store, content store, and the
                 \* awaited calls of the plugin and content stages that rejected, and the tags of
                 \* the stored course document
  importer,      \* the fields of the AdaptFrameworkImport instance
  contentJson,   \* this.contentJson: [course |-> [_id, ...], contentObjects |-> sequence of [_id, _parentId]]
  pc,            \* position inside import()
  idx,           \* index of the next entry of `tasks`
  error,         \* local `error` of import()
  stagesRun,     \* the stage functions invoked so far, in order
  calls,         \* calls made to the collaborators, per collaborator, in order
  rollback,      \* the compensation calls of cleanUp and their state when cleanUp returned
  inflight,      \* collaborator calls started by a stage and still pending
  raised,        \* the exception caught by import(): its value, its data and the number of stages invoked before it
  result,        \* how the promise of import() settled
  sortPc,        \* position inside getSortedData: "idle", "loop", "returned", "thrown"
  sorted,        \* local `sorted` of getSortedData (first level holds the course _id)
  hierarchy,     \* local `hierarchy`: [keys |-> parent ids in insertion order, kids |-> parent id -> child ids]
  toSort,        \* local `toSort` worklist
  util           \* a call of a static helper of AdaptFrameworkUtils: its name, arguments and return value

sortVars == <<contentJson, sortPc, sorted, hierarchy, toSort>>
runVars == <<settings, disk, server, importer, pc, idx, error, stagesRun, calls, rollback, inflight, raised, result,
            util>>
vars == <<settings, disk, server, importer, contentJson, pc, idx, error, stagesRun, calls, rollback, inflight,
          raised, result, sortPc, sorted, hierarchy, toSort, util>>

(***************************************************************************)
(* JavaScript array helpers                                                *)
(***************************************************************************)
\* Array.prototype.indexOf: 0-based index of the first occurrence, -1 if absent
IndexOf(arr, x) ==
  IF \E i \in 1..Len(arr) : arr[i] = x
    THEN (CHOOSE i \in 1..Len(arr) : arr[i] = x /\ \A j \in 1..(i-1) : arr[j] # x) - 1
    ELSE -1

\* Array.prototype.splice(start, 1): a negative start counts from the end of the array
Splice1(arr, start) ==
  LET len == Len(arr)
      from == IF start < 0 THEN (IF len + start < 0 THEN 0 ELSE len + start)
              ELSE (IF start > len THEN len ELSE start)
  IN IF from >= len THEN arr
     ELSE [i \in 1..(len - 1) |-> IF i <= from THEN arr[i] ELSE arr[i + 1]]

(***************************************************************************)
(* getSortedData                                                           *)
(***************************************************************************)
\* the reduce building `hierarchy`: parent id -> child ids, keys in order of first insertion
RECURSIVE BuildHierarchy(_, _)
BuildHierarchy(objs, h) ==
  IF objs = <<>> THEN h
  ELSE LET c == Head(objs)
           p == c._parentId
           known == \E i \in 1..Len(h.keys) : h.keys[i] = p
           h2 == [keys |-> IF known THEN h.keys ELSE Append(h.keys, p),
                  kids |-> [q \in (DOMAIN h.kids) \cup {p} |->
                              IF q = p THEN Append(IF known THEN h.kids[p] ELSE <<>>, c._id)
                              ELSE h.kids[q]]]
       IN BuildHierarchy(Tail(objs), h2)

EmptyHierarchy == [keys |-> <<>>, kids |-> [q \in {} |-> <<>>]]

\* hierarchy[_id] ?? []
KidsOf(h, id) == IF id \in DOMAIN h.kids THEN h.kids[id] ELSE <<>>

\* variant: the worklist is spliced only when it holds the id
SpliceIdIfFound(ts, id) == IF IndexOf(ts, id) = -1 THEN ts ELSE Splice1(ts, IndexOf(ts, id))

\* toSort.splice(toSort.indexOf(_id), 1)
SpliceId(ts, id) == Splice1(ts, IndexOf(ts, id))

\* the forEach over the last level: collects the children and splices the worklist
RECURSIVE VisitLevel(_, _, _, _)
VisitLevel(level, h, newLevel, ts) ==
  IF level = <<>> THEN [newLevel |-> newLevel, toSort |-> ts]
  ELSE VisitLevel(Tail(level), h, newLevel \o KidsOf(h, Head(level)), SpliceId(ts, Head(level)))

\* sorted.slice(1)
Slice1(s) == IF Len(s) = 0 THEN <<>> ELSE Tail(s)

\* lines 756-762: sorted, hierarchy and toSort before the loop
getSortedData_begin ==
  /\ sortPc = "idle"
  /\ sorted' = << <<contentJson.course._id>> >>
  /\ hierarchy' = BuildHierarchy(contentJson.contentObjects, EmptyHierarchy)
  /\ toSort' = BuildHierarchy(contentJson.contentObjects, EmptyHierarchy).keys
  /\ sortPc' = "loop"
  /\ UNCHANGED <<contentJson, runVars>>

\* lines 763-773: one iteration of the while loop
getSortedData_loop ==
  /\ sortPc = "loop"
  /\ toSort # <<>>
  /\ Len(sorted) <= MaxLevels
  /\ LET v == VisitLevel(sorted[Len(sorted)], hierarchy, <<>>, toSort)
     IN /\ toSort' = v.toSort
        /\ IF v.newLevel = <<>>
             THEN sortPc' = "thrown" /\ sorted' = sorted
             ELSE sortPc' = "loop" /\ sorted' = Append(sorted, v.newLevel)
  /\ UNCHANGED <<contentJson, hierarchy, runVars>>

\* line 774: the loop condition is false, the course level is sliced off
getSortedData_return ==
  /\ sortPc = "loop"
  /\ toSort = <<>>
  /\ sorted' = Slice1(sorted)
  /\ sortPc' = "returned"
  /\ UNCHANGED <<contentJson, hierarchy, toSort, runVars>>

\* the while loop of lines 763-774, run to its end
RECURSIVE SortLoop(_, _, _)
SortLoop(srt, h, ts) ==
  IF ts = <<>> THEN [thrown |-> FALSE, sorted |-> Slice1(srt), hierarchy |-> h]
  ELSE LET v == VisitLevel(srt[Len(srt)], h, <<>>, ts)
       IN IF v.newLevel = <<>>
            THEN [thrown |-> TRUE, sorted |-> <<>>, hierarchy |-> h]
            ELSE SortLoop(Append(srt, v.newLevel), h, v.toSort)

\* getSortedData as importCourseData calls it
getSortedData(cj) ==
  LET h == BuildHierarchy(cj.contentObjects, EmptyHierarchy)
  IN SortLoop(<< <<cj.course._id>> >>, h, h.keys)

(***************************************************************************)
(* JavaScript values of the settings                                       *)
(***************************************************************************)
JsBool(b) == IF b THEN "true" ELSE "false"
\* ToBoolean of a value that is true, false or undefined
Truthy(v) == v = "true"
\* a && b
JsAnd(a, b) == IF Truthy(a) THEN b ELSE a
\* !a
JsNot(a) == IF Truthy(a) THEN "false" ELSE "true"

\* the settings an importer can be constructed with: isDryRun has no default
SettingsSet ==
  [isDryRun : {"true", "false", Undefined}, importContent : BOOLEAN, importPlugins : BOOLEAN,
   migrateContent : BOOLEAN, updatePlugins : BOOLEAN, removeSource : BOOLEAN]

\* variant: generateSummary is guarded by importContent
tasksSummaryGated(s) ==
  LET isDryRun == s.isDryRun
      importContent == JsBool(s.importContent)
      importPlugins == JsBool(s.importPlugins)
      migrateContent == JsBool(s.migrateContent)
  IN << [func |-> "prepare", test |-> Undefined],
        [func |-> "loadAssetData", test |-> Undefined],
        [func |-> "loadPluginData", test |-> Undefined],
        [func |-> "preImportHook", test |-> Undefined],
        [func |-> "importTags", test |-> importContent],
        [func |-> "importCourseAssets", test |-> importContent],
        [func |-> "importCoursePlugins", test |-> JsAnd(isDryRun, importPlugins)],
        [func |-> "importCoursePlugins", test |-> JsAnd(JsNot(isDryRun), importContent)],
        [func |-> "loadCourseData", test |-> JsAnd(isDryRun, importContent)],
        [func |-> "migrateCourseData", test |-> JsAnd(JsNot(isDryRun), migrateContent)],
        [func |-> "loadCourseData", test |-> JsAnd(JsNot(isDryRun), importContent)],
        [func |-> "importCourseData", test |-> JsAnd(JsNot(isDryRun), importContent)],
        [func |-> "generateSummary", test |-> importContent] >>

\* the `tasks` list of import(): each stage with its guard
tasks(s) ==
  LET isDryRun == s.isDryRun
      importContent == JsBool(s.importContent)
      importPlugins == JsBool(s.importPlugins)
      migrateContent == JsBool(s.migrateContent)
  IN << [func |-> "prepare", test |-> Undefined],
        [func |-> "loadAssetData", test |-> Undefined],
        [func |-> "loadPluginData", test |-> Undefined],
        [func |-> "preImportHook", test |-> Undefined],
        [func |-> "importTags", test |-> importContent],
        [func |-> "importCourseAssets", test |-> importContent],
        [func |-> "importCoursePlugins", test |-> JsAnd(isDryRun, importPlugins)],
        [func |-> "importCoursePlugins", test |-> JsAnd(JsNot(isDryRun), importContent)],
        [func |-> "loadCourseData", test |-> JsAnd(isDryRun, importContent)],
        [func |-> "migrateCourseData", test |-> JsAnd(JsNot(isDryRun), migrateContent)],
        [func |-> "loadCourseData", test |-> JsAnd(JsNot(isDryRun), importContent)],
        [func |-> "importCourseData", test |-> JsAnd(JsNot(isDryRun), importContent)],
        [func |-> "generateSummary", test |-> Undefined] >>

\* variant: the guard is not consulted
ShouldRunAlways(test) == TRUE

\* if (test === true || test === undefined)
ShouldRun(test) == test = "true" \/ test = Undefined

(***************************************************************************)
(* Finite maps and sequences                                               *)
(***************************************************************************)
EmptyMap == [k \in {} |-> 0]
Put(m, k, v) == [x \in (DOMAIN m) \cup {k} |-> IF x = k THEN v ELSE m[x]]
Range(f) == { f[x] : x \in DOMAIN f }
\* the elements of sequence q that satisfy membership in set S, in order
RECURSIVE Keep(_, _)
Keep(q, S) ==
  IF q = <<>> THEN <<>>
  ELSE IF Head(q) \in S THEN <<Head(q)>> \o Keep(Tail(q), S) ELSE Keep(Tail(q), S)
\* a set of integers as the ascending sequence
RECURSIVE Ascending(_)
Ascending(S) ==
  IF S = {} THEN <<>>
  ELSE LET m == CHOOSE x \in S : \A y \in S : x <= y IN <<m>> \o Ascending(S \ {m})

(***************************************************************************)
(* The importer instance and its collaborators                             *)
(***************************************************************************)
\* the fields the constructor sets (lines 88-210)
NewImporter(tags) ==
  [pkgLoaded |-> FALSE,
   assetData |-> <<>>,
   tags |-> tags,
   usedContentPlugins |-> EmptyMap,
   newContentPlugins |-> EmptyMap,
   updatedContentPlugins |-> EmptyMap,
   assetMap |-> EmptyMap,
   idMap |-> EmptyMap,
   idMapCourse |-> NoId,
   newTagIds |-> <<>>,
   statusReport |-> [info |-> <<>>, warn |-> <<>>],
   summary |-> [generated |-> FALSE, versions |-> <<>>],
   pluginsToMigrate |-> <<CorePlugin>>]

\* this.contentJson as the constructor leaves it (lines 128-131)
NewContentJson ==
  [course |-> [_id |-> NoId, loaded |-> FALSE, tags |-> <<>>, migrated |-> FALSE],
   config |-> [loaded |-> FALSE, migrated |-> FALSE],
   contentObjects |-> <<>>]

NoCalls ==
  [content |-> <<>>, assets |-> <<>>, tags |-> <<>>, contentplugin |-> <<>>, courseassets |-> <<>>, fs |-> <<>>]
Call(c, who, op, arg) == [c EXCEPT ![who] = Append(@, [op |-> op, arg |-> arg])]
\* the arguments of the calls of operation op made to collaborator who
Args(c, who, op) == { c[who][i].arg : i \in { j \in 1..Len(c[who]) : c[who][j].op = op } }
Count(c, who, op) == Cardinality({ j \in 1..Len(c[who]) : c[who][j].op = op })

NoRollback ==
  [invocations |-> <<>>, started |-> {}, awaited |-> {}, failed |-> {}, late |-> {}, aborted |-> FALSE]
NoResult == [status |-> "pending", value |-> NoError]

\* _id the content store gives the document inserted for package-local id
NewDocId(id) == 100 + id
\* _id of the registry record of a plugin
PluginRecordId(name) == 200 + name

\* variant: the entry takes the place of the list
infoReplacing(rep, code, data) == [rep EXCEPT !.info = << [code |-> code, data |-> data] >>]

\* this.statusReport.info.push(...) and this.statusReport.warn.push(...)
info(rep, code, data) == [rep EXCEPT !.info = Append(@, [code |-> code, data |-> data])]
warn(rep, code, data) == [rep EXCEPT !.warn = Append(@, [code |-> code, data |-> data])]

(***************************************************************************)
(* import(): the loop over `tasks`                                         *)
(***************************************************************************)
\* the stage returned: the loop goes on with the next entry
Advance == idx' = idx + 1 /\ pc' = pc /\ error' = error /\ raised' = raised
\* lines 282-285: the stage threw e, which is caught and handed to cleanUp
ThrowWith(e, data) ==
  /\ idx' = idx
  /\ pc' = "cleanUp"
  /\ error' = e
  /\ raised' = [value |-> e, at |-> Len(stagesRun'), data |-> data]
Throw(e) == ThrowWith(e, <<>>)
\* what every step of import() leaves alone
SortIdle == UNCHANGED <<sortPc, sorted, hierarchy, toSort, result, util>>

\* the loop reaches entry idx, whose guard lets func run
Invoke(func) ==
  /\ pc = "tasks"
  /\ idx <= Len(tasks(settings))
  /\ tasks(settings)[idx].func = func
  /\ ShouldRun(tasks(settings)[idx].test)
  /\ stagesRun' = Append(stagesRun, func)

\* lines 220-260: the modules are awaited; a module that failed to load rejects
importBegin ==
  /\ pc = "start"
  /\ UNCHANGED <<settings, disk, server, importer, contentJson, stagesRun, calls, rollback, inflight>>
  /\ \E ok \in BOOLEAN :
       IF ok THEN pc' = "tasks" /\ UNCHANGED <<error, raised, idx>>
             ELSE Throw("MODULE_LOAD_FAILED")
  /\ SortIdle

\* line 279: the guard of entry idx is false, the stage is not called
skipTask ==
  /\ pc = "tasks"
  /\ idx <= Len(tasks(settings))
  /\ ~ShouldRun(tasks(settings)[idx].test)
  /\ Advance
  /\ UNCHANGED <<settings, disk, server, importer, contentJson, stagesRun, calls, rollback, inflight>>
  /\ SortIdle

(***************************************************************************)
(* Stages                                                                  *)
(***************************************************************************)
\* variant: a package of another major version is refused whatever migrateContent is
IncompatRefusedAlways(compatible, migrateContent) == ~compatible

\* lines 339-341: the package version does not satisfy the framework's major version and
\* migrateContent is off
IncompatRefused(compatible, migrateContent) == ~compatible /\ ~migrateContent

\* lines 294-349
prepare ==
  /\ Invoke("prepare")
  /\ \E fault \in {"none", "FW_IMPORT_INVALID_COURSE", "FW_IMPORT_INVALID", "SCHEMA_CONVERT_FAILED"} :
       IF fault = "FW_IMPORT_INVALID_COURSE"
         THEN Throw(fault) /\ UNCHANGED <<importer, contentJson>>
       ELSE /\ contentJson' = [contentJson EXCEPT !.config = [loaded |-> TRUE, migrated |-> disk.migrated]]
            /\ IF fault = "FW_IMPORT_INVALID"
                 THEN Throw(fault) /\ UNCHANGED importer
               ELSE IF IncompatRefused(disk.compatible, settings.migrateContent)
                 THEN Throw("FW_IMPORT_INCOMPAT") /\ importer' = [importer EXCEPT !.pkgLoaded = TRUE]
               ELSE /\ importer' = [importer EXCEPT
                                      !.pkgLoaded = TRUE,
                                      !.statusReport = IF disk.compatible THEN @
                                                       ELSE info(@, "MIGRATE_CONTENT", 0)]
                    /\ IF fault = "none" THEN Advance ELSE Throw(fault)
  /\ UNCHANGED <<settings, disk, server, calls, rollback, inflight>>
  /\ SortIdle

\* lines 401-421: one entry per asset file, the course-wide tags put in front of its own
loadAssetData ==
  /\ Invoke("loadAssetData")
  /\ \E ok \in BOOLEAN :
       IF ok
         THEN /\ importer' = [importer EXCEPT !.assetData =
                    [i \in 1..Len(disk.assets) |->
                       [file |-> disk.assets[i].file,
                        tags |-> IF importer.tags # <<>> THEN importer.tags \o disk.assets[i].tags
                                 ELSE disk.assets[i].tags]]]
              /\ Advance
         ELSE Throw("ASSET_METADATA_UNREADABLE") /\ importer' = [importer EXCEPT !.assetData = <<>>]
  /\ UNCHANGED <<settings, disk, server, contentJson, calls, rollback, inflight>>
  /\ SortIdle

\* lines 427-441
loadPluginData ==
  /\ Invoke("loadPluginData")
  /\ \E ok \in BOOLEAN :
       IF ok THEN importer' = [importer EXCEPT !.usedContentPlugins = disk.plugins] /\ Advance
             ELSE Throw("PLUGIN_MANIFEST_UNREADABLE") /\ UNCHANGED importer
  /\ UNCHANGED <<settings, disk, server, contentJson, calls, rollback, inflight>>
  /\ SortIdle

\* line 267: the observers of preImportHook run; one of them may throw
preImportHook ==
  /\ Invoke("preImportHook")
  /\ \E ok \in BOOLEAN : IF ok THEN Advance ELSE Throw("PRE_IMPORT_HOOK_FAILED")
  /\ UNCHANGED <<settings, disk, server, importer, contentJson, calls, rollback, inflight>>
  /\ SortIdle

\* _id the tag store gives the tag inserted for a title
TagId(title) == 300 + title
\* _id the asset store gives the asset inserted for a file
AssetId(file) == 400 + file
\* newTags.length of a Set, which is undefined
UndefinedCount == -1

\* the titles of all tags of the asset entries
AssetTagTitles(assetData) == UNION { Range(assetData[i].tags) : i \in 1..Len(assetData) }

\* lines 545-548: the course tags before the first one the tag store lacks (newTags.push on a Set throws)
RECURSIVE CourseTagsKept(_, _)
CourseTagsKept(courseTags, existing) ==
  IF courseTags = <<>> \/ Head(courseTags) \notin existing THEN <<>>
  ELSE <<Head(courseTags)>> \o CourseTagsKept(Tail(courseTags), existing)

\* lines 539-573
importTags ==
  /\ Invoke("importTags")
  /\ LET existing == server.tags
         courseTags == contentJson.course.tags
         kept == CourseTagsKept(courseTags, existing)
         allTags == importer.tags \o kept
         newTags == AssetTagTitles(importer.assetData) \ existing
         \* existingTagMap[t] of lines 565-570: undefined for a title that is not in the map
         toIds(q) == [i \in 1..Len(q) |-> IF q[i] \in existing \cup newTags THEN TagId(q[i]) ELSE NoId]
     IN \E found \in BOOLEAN :
          IF ~found
            THEN Throw("TAG_STORE_FAILED") /\ UNCHANGED <<importer, server, calls, inflight, contentJson>>
          ELSE IF Len(kept) < Len(courseTags)
            THEN /\ Throw("TypeError")
                 /\ importer' = [importer EXCEPT !.tags = allTags]
                 /\ UNCHANGED <<server, calls, inflight, contentJson>>
          ELSE IF Truthy(settings.isDryRun)
            THEN /\ importer' = [importer EXCEPT
                                   !.tags = allTags,
                                   !.statusReport = info(@, "TAGS_IMPORTED", UndefinedCount)]
                 /\ Advance
                 /\ UNCHANGED <<server, calls, inflight, contentJson>>
          ELSE \E failing \in { F \in SUBSET newTags : Cardinality(F) <= MaxFaults } :
                 LET started == [calls EXCEPT !.tags = @ \o [i \in 1..Cardinality(newTags) |->
                                        [op |-> "insert", arg |-> Ascending(newTags)[i]]]]
                 IN IF failing = {}
                      THEN /\ server' = [server EXCEPT !.tags = @ \cup newTags,
                                                         !.created.tags = @ \cup newTags]
                           /\ importer' = [importer EXCEPT
                                  !.newTagIds = @ \o toIds(Ascending(newTags)),
                                  !.tags = toIds(allTags),
                                  !.assetData = [i \in 1..Len(importer.assetData) |->
                                       [file |-> importer.assetData[i].file,
                                        tags |-> toIds(importer.assetData[i].tags)]]]
                           /\ contentJson' = [contentJson EXCEPT !.course.tags = toIds(courseTags)]
                           /\ calls' = started
                           /\ inflight' = inflight
                           /\ Advance
                      ELSE \E done \in SUBSET (newTags \ failing) :
                           /\ server' = [server EXCEPT !.tags = @ \cup done, !.created.tags = @ \cup done]
                           /\ importer' = [importer EXCEPT
                                  !.newTagIds = @ \o toIds(Ascending(done)),
                                  !.tags = allTags]
                           /\ calls' = started
                           /\ inflight' = inflight \cup (newTags \ (failing \cup done))
                           /\ contentJson' = contentJson
                           /\ Throw("TAG_INSERT_FAILED")
  /\ UNCHANGED <<settings, disk, rollback>>
  /\ SortIdle

\* lines 559-563 after Promise.all has rejected: an insert still pending completes
lateTagInsert ==
  /\ inflight # {}
  /\ \E t \in inflight, ok \in BOOLEAN :
       /\ inflight' = inflight \ {t}
       /\ IF ok
            THEN /\ server' = [server EXCEPT !.tags = @ \cup {t}, !.created.tags = @ \cup {t}]
                 /\ importer' = [importer EXCEPT !.newTagIds = Append(@, TagId(t))]
            ELSE UNCHANGED <<server, importer>>
  /\ UNCHANGED <<settings, disk, contentJson, pc, idx, error, stagesRun, calls, rollback, raised>>
  /\ SortIdle

\* variant: a failed insert leaves no trace in the status report
AssetWarningsNone(koSeq) == <<>>

\* line 602: one warning per asset whose insert rejected
AssetWarnings(koSeq) == [i \in 1..Len(koSeq) |-> [code |-> "ASSET_IMPORT_FAILED", data |-> koSeq[i]]]

\* lines 579-608
importCourseAssets ==
  /\ Invoke("importCourseAssets")
  /\ LET files == { importer.assetData[i].file : i \in 1..Len(importer.assetData) }
         n == Len(importer.assetData)
     IN IF Truthy(settings.isDryRun)
          THEN /\ importer' = [importer EXCEPT
                     !.statusReport = info(@, "ASSETS_IMPORTED_SUCCESSFULLY", n)]
               /\ UNCHANGED <<server, calls>>
          ELSE \E failing \in { F \in SUBSET files : Cardinality(F) <= MaxFaults } :
               LET okSeq == Keep([i \in 1..n |-> importer.assetData[i].file], files \ failing)
                   koSeq == Keep([i \in 1..n |-> importer.assetData[i].file], failing)
               IN /\ calls' = [calls EXCEPT !.assets = @ \o
                                  [i \in 1..n |-> [op |-> "insert", arg |-> importer.assetData[i].file]]]
                  /\ server' = [server EXCEPT !.assets = @ \cup (files \ failing),
                                                !.created.assets = @ \cup (files \ failing)]
                  /\ importer' = [importer EXCEPT
                        !.assetMap = [f \in (DOMAIN @) \cup (files \ failing) |->
                                        IF f \in files \ failing THEN AssetId(f) ELSE @[f]],
                        !.statusReport =
                           info([@ EXCEPT !.warn = @ \o AssetWarnings(koSeq)],
                                "ASSETS_IMPORTED_SUCCESSFULLY", n)]
  /\ Advance
  /\ UNCHANGED <<settings, disk, contentJson, rollback, inflight>>
  /\ SortIdle

\* lines 447-453 and 459-491: the language directory is read into contentJson
loadCourseData ==
  /\ Invoke("loadCourseData")
  /\ \E ok \in BOOLEAN :
       IF ok
         THEN /\ contentJson' = [contentJson EXCEPT
                   !.course = [_id |-> CourseId, loaded |-> TRUE, tags |-> disk.courseTags,
                               migrated |-> disk.migrated],
                   !.contentObjects = disk.objs]
              /\ importer' = [importer EXCEPT
                   !.statusReport = info(@, "CONTENT_IMPORTED", Len(disk.objs) + 2)]
              /\ Advance
         ELSE Throw("FILE_SYNTAX_ERROR") /\ UNCHANGED <<contentJson, importer>>
  /\ UNCHANGED <<settings, disk, server, calls, rollback, inflight>>
  /\ SortIdle

\* variant: the failure of the migration tool is thrown as it is
MigrationErrorUnwrapped(reason) == reason

\* lines 529-532: whatever the try block throws is replaced by FW_IMPORT_MIGRATION_FAILED
MigrationError(reason) == "FW_IMPORT_MIGRATION_FAILED"

\* lines 509-533
migrateCourseData ==
  /\ Invoke("migrateCourseData")
  /\ \E fault \in {"none", "capture", "migrate", "rm"} :
       /\ disk' = [disk EXCEPT
             !.captureDir = fault \in {"migrate", "rm"},
             !.migrated = fault \in {"none", "rm"}]
       /\ IF fault = "none" THEN Advance ELSE ThrowWith(MigrationError(fault), <<fault>>)
  /\ UNCHANGED <<settings, server, importer, contentJson, calls, rollback, inflight>>
  /\ SortIdle

\* variant: every version string is accepted
SemverValidAlways(v) == TRUE

\* semver.valid: a version string parses; valid versions are the naturals, ordered as semver orders them
SemverValid(v) == v \in Nat

\* variant: no version is older than another
SemverLtNever(a, b) == FALSE

\* semver.lt
SemverLt(a, b) == a < b

\* variant: every version is newer than another
SemverGtAlways(a, b) == TRUE

\* semver.gt
SemverGt(a, b) == a > b

\* variant: the importPlugins setting is not consulted
importPluginsDisabledNever(s) == FALSE

\* line 659: !this.settings.importPlugins
importPluginsDisabled(s) == ~s.importPlugins

\* variant: no installer failure is ignored
IsAlreadyExistsNever(e) == FALSE

\* line 687: e.code === 'EEXIST'
IsAlreadyExists(e) == e = "EEXIST"

\* lines 620-654: the forEach over the used plugins, stopped by the throw of line 625
RECURSIVE ReconcilePlugins(_, _, _, _, _)
ReconcilePlugins(names, used, installedPlugins, updatePlugins, acc) ==
  IF names = <<>> \/ acc.thrown THEN acc
  ELSE LET p == Head(names)
           isInstalled == p \in DOMAIN installedPlugins
           declared == used[p].version
           isValid == SemverValid(declared)
           importVersion == IF isValid THEN declared ELSE 0
           rep1 == IF ~isValid /\ isInstalled
                     THEN warn(acc.statusReport, "INVALID_PLUGIN_VERSION", p) ELSE acc.statusReport
           installedVersion == installedPlugins[p].version
           isLocalInstall == installedPlugins[p].isLocalInstall
           acc2 ==
             IF ~isValid /\ ~isInstalled THEN [acc EXCEPT !.thrown = TRUE]
             ELSE IF ~isInstalled
               THEN [acc EXCEPT !.statusReport = rep1, !.pluginsToInstall = Append(@, p)]
             ELSE IF SemverLt(importVersion, installedVersion)
               THEN [acc EXCEPT !.statusReport = info(rep1, "PLUGIN_INSTALL_MIGRATING", p),
                                !.pluginsToMigrate = Append(@, p)]
             ELSE IF ~updatePlugins
               THEN [acc EXCEPT !.statusReport = rep1,
                                !.managedPluginUpdateBlocked =
                                   @ \/ (~isLocalInstall /\ SemverGt(importVersion, installedVersion))]
             ELSE IF importVersion = installedVersion
               THEN [acc EXCEPT !.statusReport = info(rep1, "PLUGIN_INSTALL_NOT_NEWER", p)]
             ELSE [acc EXCEPT !.statusReport = IF ~isLocalInstall
                                                 THEN warn(rep1, "MANAGED_PLUGIN_INSTALL_SKIPPED", p)
                                                 ELSE rep1,
                              !.pluginsToUpdate = Append(@, p)]
       IN ReconcilePlugins(Tail(names), used, installedPlugins, updatePlugins, acc2)

\* lines 665-694: the install attempts, each with the outcome of readJson and installPlugins
RECURSIVE InstallPlugins(_, _, _, _, _)
InstallPlugins(queue, pluginsToUpdate, outcome, dry, acc) ==
  IF queue = <<>> THEN acc
  ELSE LET p == Head(queue)
           isUpdate == \E i \in 1..Len(pluginsToUpdate) : pluginsToUpdate[i] = p
           a1 == IF isUpdate /\ p \in DOMAIN acc.installedPlugins
                   THEN [acc EXCEPT !.updatedContentPlugins = Put(@, p, acc.installedPlugins[p])]
                   ELSE acc
           called == ~dry /\ outcome[p] # "unreadable"
           a2 == IF called THEN [a1 EXCEPT !.calls = Call(@, "contentplugin", "installPlugins", p)] ELSE a1
           a3 == IF outcome[p] = "ok"
                   THEN [a2 EXCEPT
                          !.registry = IF dry THEN @
                                       ELSE Put(@, p, [version |-> acc.used[p].version, isLocalInstall |-> TRUE]),
                          !.created = IF dry THEN @
                                      ELSE IF p \in DOMAIN acc.registry THEN [@ EXCEPT !.updated = @ \cup {p}]
                                      ELSE [@ EXCEPT !.plugins = @ \cup {p}],
                          !.newContentPlugins = IF dry \/ isUpdate THEN @
                                                ELSE Put(@, p, [name |-> p, _id |-> PluginRecordId(p)]),
                          !.statusReport = info(@, "INSTALL_PLUGIN", p)]
                 ELSE LET a4 == [a2 EXCEPT !.rejected = Append(@,
                                       [op |-> IF outcome[p] = "unreadable" THEN "readJson" ELSE "installPlugins",
                                        arg |-> p, code |-> outcome[p]])]
                      IN IF IsAlreadyExists(outcome[p]) THEN a4
                         ELSE [a4 EXCEPT !.errors = Append(@, p)]
       IN InstallPlugins(Tail(queue), pluginsToUpdate, outcome, dry, a3)

\* lines 614-704
importCoursePlugins ==
  /\ Invoke("importCoursePlugins")
  /\ \E found \in BOOLEAN :
       IF ~found
         THEN Throw("PLUGIN_REGISTRY_FAILED") /\ UNCHANGED <<importer, server, calls>>
       ELSE
         LET installedPlugins == server.plugins
             used == importer.usedContentPlugins
             dry == Truthy(settings.isDryRun)
             r == ReconcilePlugins(Ascending(DOMAIN used), used, installedPlugins, settings.updatePlugins,
                    [thrown |-> FALSE, pluginsToInstall |-> <<>>, pluginsToUpdate |-> <<>>,
                     statusReport |-> importer.statusReport, pluginsToMigrate |-> importer.pluginsToMigrate,
                     managedPluginUpdateBlocked |-> FALSE])
             rep == IF r.managedPluginUpdateBlocked
                      THEN warn(r.statusReport, "MANAGED_PLUGIN_UPDATE_DISABLED", 0) ELSE r.statusReport
             reconciled == [importer EXCEPT !.statusReport = rep, !.pluginsToMigrate = r.pluginsToMigrate]
             queue == r.pluginsToInstall \o r.pluginsToUpdate
         IN IF r.thrown
              THEN /\ Throw("FW_INVALID_VERSION")
                   /\ importer' = [importer EXCEPT !.statusReport = r.statusReport,
                                                   !.pluginsToMigrate = r.pluginsToMigrate]
                   /\ UNCHANGED <<server, calls>>
            ELSE IF r.pluginsToInstall = <<>>
              THEN Advance /\ importer' = reconciled /\ UNCHANGED <<server, calls>>
            ELSE IF importPluginsDisabled(settings)
              THEN /\ IF dry THEN Throw("TypeError")
                             ELSE ThrowWith("FW_IMPORT_MISSING_PLUGINS", r.pluginsToInstall)
                   /\ importer' = reconciled
                   /\ UNCHANGED <<server, calls>>
            ELSE \E outcome \in { o \in [Range(queue) -> IF dry THEN {"ok", "unreadable"}
                                                         ELSE {"ok", "EEXIST", "failed", "unreadable"}] :
                                    Cardinality({ q \in Range(queue) : o[q] # "ok" }) <= MaxFaults } :
                   LET a == InstallPlugins(queue, r.pluginsToUpdate, outcome, dry,
                              [installedPlugins |-> installedPlugins, used |-> used,
                               registry |-> server.plugins, created |-> server.created,
                               rejected |-> server.rejected, calls |-> calls,
                               newContentPlugins |-> importer.newContentPlugins,
                               updatedContentPlugins |-> importer.updatedContentPlugins,
                               statusReport |-> rep, errors |-> <<>>])
                   IN /\ importer' = [reconciled EXCEPT !.statusReport = a.statusReport,
                                                        !.newContentPlugins = a.newContentPlugins,
                                                        !.updatedContentPlugins = a.updatedContentPlugins]
                      /\ server' = [server EXCEPT !.plugins = a.registry, !.created = a.created,
                                                   !.rejected = a.rejected]
                      /\ calls' = a.calls
                      /\ IF a.errors # <<>> THEN ThrowWith("FW_IMPORT_PLUGINS_FAILED", a.errors) ELSE Advance
  /\ UNCHANGED <<settings, disk, contentJson, rollback, inflight>>
  /\ SortIdle

\* variant: the last level comes first
RECURSIVE FlattenDeepestFirst(_)
FlattenDeepestFirst(levels) ==
  IF levels = <<>> THEN <<>> ELSE FlattenDeepestFirst(Tail(levels)) \o Head(levels)

\* the ids of all levels of `sorted`, level by level
RECURSIVE Flatten(_)
Flatten(levels) == IF levels = <<>> THEN <<>> ELSE Head(levels) \o Flatten(Tail(levels))

\* lines 782-807: the document content.insert stores for a package-local _id; the store gives a
\* course its own _id as _courseId
InsertedDoc(id, courseId) == [_id |-> NewDocId(id), local |-> id, _courseId |-> courseId]

\* a call of the content store that rejected
Rejected(op, arg) == [op |-> op, arg |-> arg, code |-> "failed"]

\* variant: the loop over the levels ends at the first document that fails
RECURSIVE InsertAllUntilFailure(_, _, _)
InsertAllUntilFailure(ids, failing, acc) ==
  IF ids = <<>> THEN acc
  ELSE LET id == Head(ids)
           n == acc.attempts + 1
           a1 == [acc EXCEPT !.attempts = n, !.calls = Call(@, "content", "insert", id)]
       IN IF n \in failing
            THEN [a1 EXCEPT !.errors = Append(@, id), !.rejected = Append(@, Rejected("insert", id))]
          ELSE InsertAllUntilFailure(Tail(ids), failing,
                 [a1 EXCEPT !.content = @ \cup {InsertedDoc(id, acc.idMapCourse)},
                            !.idMap = Put(@, id, NewDocId(id))])

\* lines 734-747: importContentObject for the ids of all levels in turn; the attempts numbered in
\* `failing` throw and are collected in `errors`
RECURSIVE InsertAll(_, _, _)
InsertAll(ids, failing, acc) ==
  IF ids = <<>> THEN acc
  ELSE LET id == Head(ids)
           n == acc.attempts + 1
           a1 == [acc EXCEPT !.attempts = n, !.calls = Call(@, "content", "insert", id)]
       IN IF n \in failing
            THEN InsertAll(Tail(ids), failing,
                   [a1 EXCEPT !.errors = Append(@, id), !.rejected = Append(@, Rejected("insert", id))])
          ELSE InsertAll(Tail(ids), failing,
                 [a1 EXCEPT !.content = @ \cup {InsertedDoc(id, acc.idMapCourse)},
                            !.idMap = Put(@, id, NewDocId(id))])

\* variant: the config is stored before the course
CourseConfigCallsConfigFirst(course) ==
  << [op |-> "insert", arg |-> ConfigId],
     [op |-> "insert", arg |-> course],
     [op |-> "update", arg |-> NewDocId(course)] >>

\* lines 724-727: the calls of the try block, in order: the course, the config, the course again
\* as an update
CourseConfigCalls(course) ==
  << [op |-> "insert", arg |-> course],
     [op |-> "insert", arg |-> ConfigId],
     [op |-> "update", arg |-> NewDocId(course)] >>

\* lines 710-749
importCourseData ==
  /\ Invoke("importCourseData")
  /\ \E fault \in {"none", "course", "config", "update"},
        tagsReplaced \in (IF contentJson.course.tags = <<>> THEN {FALSE} ELSE BOOLEAN) :
       LET course == contentJson.course._id
           newCourse == NewDocId(course)
           afterCourse == [importer EXCEPT !.idMap = Put(@, course, newCourse), !.idMapCourse = newCourse]
           afterConfig == [afterCourse EXCEPT !.idMap = Put(@, ConfigId, NewDocId(ConfigId))]
           c1 == [calls EXCEPT !.content = @ \o SubSeq(CourseConfigCalls(course), 1, 1)]
           c2 == [calls EXCEPT !.content = @ \o SubSeq(CourseConfigCalls(course), 1, 2)]
           c3 == [calls EXCEPT !.content = @ \o CourseConfigCalls(course)]
           \* line 724: the course is inserted with `tags: this.tags`
           s1 == [server EXCEPT !.content = @ \cup {InsertedDoc(course, newCourse)},
                                !.created.courses = @ \cup {newCourse},
                                !.courseTags = importer.tags]
           s2 == [s1 EXCEPT !.content = @ \cup {InsertedDoc(ConfigId, newCourse)}]
           \* line 727: the update is given the course document as loaded from course.json; the
           \* store replaces the tags of the stored course with those of the document or keeps them
           s3 == [s2 EXCEPT !.courseTags = IF tagsReplaced THEN contentJson.course.tags ELSE @]
           srt == getSortedData(contentJson)
       IN IF fault = "course"
            THEN /\ ThrowWith("FW_IMPORT_CONTENT_FAILED", <<course>>) /\ calls' = c1 /\ UNCHANGED importer
                 /\ server' = [server EXCEPT !.rejected = Append(@, Rejected("insert", course))]
          ELSE IF fault = "config"
            THEN ThrowWith("FW_IMPORT_CONTENT_FAILED", <<ConfigId>>)
                 /\ calls' = c2 /\ importer' = afterCourse
                 /\ server' = [s1 EXCEPT !.rejected = Append(@, Rejected("insert", ConfigId))]
          ELSE IF fault = "update"
            THEN ThrowWith("FW_IMPORT_CONTENT_FAILED", <<course>>)
                 /\ calls' = c3 /\ importer' = afterConfig
                 /\ server' = [s2 EXCEPT !.rejected = Append(@, Rejected("update", newCourse))]
          ELSE IF srt.thrown
            THEN Throw("FW_IMPORT_UNEXPECTED_STRUCTURE") /\ calls' = c3 /\ importer' = afterConfig /\ server' = s3
          ELSE LET ids == Flatten(srt.sorted)
               IN \E failing \in { F \in SUBSET (1..Len(ids)) : Cardinality(F) <= MaxFaults } :
                    LET a == InsertAll(ids, failing,
                               [attempts |-> 0, calls |-> c3, content |-> s3.content,
                                idMap |-> afterConfig.idMap, idMapCourse |-> afterConfig.idMapCourse,
                                rejected |-> s3.rejected, errors |-> <<>>])
                    IN /\ calls' = a.calls
                       /\ server' = [s3 EXCEPT !.content = a.content, !.rejected = a.rejected]
                       /\ importer' = [afterConfig EXCEPT !.idMap = a.idMap]
                       /\ IF a.errors = <<>> THEN Advance
                                            ELSE ThrowWith("FW_IMPORT_CONTENT_FAILED", a.errors)
  /\ UNCHANGED <<settings, disk, contentJson, rollback, inflight>>
  /\ SortIdle

\* line 281: after the loop the observers of postImportHook run; one of them may throw
postImportHook ==
  /\ pc = "tasks"
  /\ idx = Len(tasks(settings)) + 1
  /\ stagesRun' = Append(stagesRun, "postImportHook")
  /\ \E ok \in BOOLEAN :
       IF ok THEN pc' = "cleanUp" /\ UNCHANGED <<error, raised, idx>>
             ELSE Throw("POST_IMPORT_HOOK_FAILED")
  /\ UNCHANGED <<settings, disk, server, importer, contentJson, calls, rollback, inflight>>
  /\ SortIdle

(***************************************************************************)
(* cleanUp and the end of import()                                         *)
(***************************************************************************)
Op(who, op, arg) == [who |-> who, op |-> op, arg |-> arg]
\* line 864
RmOps == {Op("fs", "rm", 0)}
\* line 867
UninstallOps(imp) ==
  { Op("contentplugin", "uninstallPlugin", imp.newContentPlugins[p]._id) : p \in DOMAIN imp.newContentPlugins }
\* lines 900-913
RestoreOps(imp) ==
  { Op("contentplugin", "restorePluginFromBackup", p) : p \in DOMAIN imp.updatedContentPlugins }
\* line 873
AssetOps(imp) == { Op("assets", "delete", a) : a \in Range(imp.assetMap) }
\* line 877
TagOps(imp) == { Op("tags", "delete", t) : t \in Range(imp.newTagIds) }
\* lines 885-888
ContentOps(courseId) ==
  {Op("content", "deleteMany", courseId), Op("courseassets", "deleteMany", courseId)}

\* the calls of a set of compensation operations appended to the call log
LogOps(c, ops) ==
  [who \in DOMAIN c |->
     c[who] \o
       LET mine == { o \in ops : o.who = who }
           names == { o.op : o \in mine }
           RECURSIVE ByName(_)
           ByName(ns) ==
             IF ns = {} THEN <<>>
             ELSE LET n == CHOOSE x \in ns : TRUE
                      args == Ascending({ o.arg : o \in { m \in mine : m.op = n } })
                  IN [i \in 1..Len(args) |-> [op |-> n, arg |-> args[i]]] \o ByName(ns \ {n})
       IN ByName(names)]

\* line 891: the operations whose settlement cleanUp has waited for when it returns. allSettled waits
\* for every task; a Promise.all group settles when all its members have fulfilled or as soon as one
\* has rejected; restoreUpdatedPlugins waits for all its members; the catch of line 892 waits for none.
Awaited(imp, started, failed, aborted) ==
  IF aborted THEN {}
  ELSE { o \in started :
           \/ o.op \in {"rm", "deleteMany", "restorePluginFromBackup"}
           \/ \E group \in {UninstallOps(imp), AssetOps(imp), TagOps(imp)} :
                o \in group /\ (group \cap failed = {} \/ group \cap failed = {o}) }

\* the server after the compensation operations that succeeded
Compensated(srv, imp, done) ==
  [srv EXCEPT
     !.plugins =
       [p \in { q \in DOMAIN srv.plugins :
                  ~(q \in DOMAIN imp.newContentPlugins
                    /\ Op("contentplugin", "uninstallPlugin", PluginRecordId(q)) \in done) } |->
          IF Op("contentplugin", "restorePluginFromBackup", p) \in done
            THEN imp.updatedContentPlugins[p] ELSE srv.plugins[p]],
     !.tags = { t \in srv.tags : Op("tags", "delete", TagId(t)) \notin done },
     !.assets = { a \in srv.assets : Op("assets", "delete", AssetId(a)) \notin done },
     !.content = { d \in srv.content : Op("content", "deleteMany", d._courseId) \notin done }]

\* lines 859-893
cleanUp ==
  /\ pc = "cleanUp"
  /\ pc' = "cleanedUp"
  /\ IF ~settings.removeSource
       THEN /\ rollback' = [rollback EXCEPT !.invocations = Append(@, error)]
            /\ UNCHANGED <<calls, server, disk>>
       ELSE \E tagsFound \in BOOLEAN :
            LET isError == error # NoError
                needTags == isError /\ importer.newTagIds # <<>>
                aborted == needTags /\ ~tagsFound
                first == IF isError
                           THEN RmOps \cup UninstallOps(importer) \cup RestoreOps(importer) \cup AssetOps(importer)
                           ELSE RmOps
                tagOps == IF needTags /\ tagsFound THEN TagOps(importer) ELSE {}
                needMongo == isError /\ ~aborted
                course == contentJson.course._id
                contentOps == IF needMongo /\ course \in DOMAIN importer.idMap
                                THEN ContentOps(importer.idMap[course]) ELSE {}
                started == first \cup tagOps \cup contentOps
                lookupFaults == IF aborted THEN 1 ELSE 0
            IN /\ needTags \/ tagsFound
               /\ \E failed \in { F \in SUBSET started : Cardinality(F) + lookupFaults <= MaxFaults } :
                    LET awaited == Awaited(importer, started, failed, aborted)
                    IN /\ rollback' = [invocations |-> Append(rollback.invocations, error),
                                       started |-> started, awaited |-> awaited, failed |-> failed,
                                       late |-> {}, aborted |-> aborted]
                       /\ calls' = LogOps(calls, started)
                       /\ server' = Compensated(server, importer, awaited \ failed)
                       /\ disk' = [disk EXCEPT !.removed = Op("fs", "rm", 0) \in awaited \ failed]
  /\ UNCHANGED <<settings, importer, contentJson, idx, error, stagesRun, inflight, raised>>
  /\ SortIdle

\* the compensation calls cleanUp did not wait for run to completion after it has returned
lateCompensation ==
  /\ pc \in {"cleanedUp", "done"}
  /\ rollback.started \ (rollback.awaited \cup rollback.late) # {}
  /\ LET rest == rollback.started \ (rollback.awaited \cup rollback.late)
     IN /\ rollback' = [rollback EXCEPT !.late = @ \cup rest]
        /\ server' = Compensated(server, importer, rest \ rollback.failed)
        /\ disk' = [disk EXCEPT !.removed = @ \/ Op("fs", "rm", 0) \in rest \ rollback.failed]
  /\ UNCHANGED <<settings, importer, contentJson, pc, idx, error, stagesRun, calls, inflight, raised>>
  /\ SortIdle

\* variant: the caught error is wrapped before it is thrown again
importResultWrapped(e) ==
  IF e # NoError THEN [status |-> "rejected", value |-> "FW_IMPORT_FAILED"]
  ELSE [status |-> "resolved", value |-> NoError]

\* lines 286-287: if (error) throw error; return this
importResult(e) ==
  IF e # NoError THEN [status |-> "rejected", value |-> e] ELSE [status |-> "resolved", value |-> NoError]

importEnd ==
  /\ pc = "cleanedUp"
  /\ pc' = "done"
  /\ result' = importResult(error)
  /\ UNCHANGED <<settings, disk, server, importer, contentJson, idx, error, stagesRun, calls, rollback,
                 inflight, raised>>
  /\ UNCHANGED <<sortPc, sorted, hierarchy, toSort, util>>

(***************************************************************************)
(* AdaptFrameworkUtils.getPluginUpdateStatus                               *)
(***************************************************************************)
\* the status codes the function returns
UpdateStatuses == {"INVALID", "INSTALLED", "OLDER", "NO_CHANGE", "UPDATE_BLOCKED", "UPDATED"}

\* variant: a newer import version is blocked whenever updatePlugins is off
getPluginUpdateStatusNoLocal(versions, isLocalInstall, updatePlugins) ==
  LET installedVersion == versions[1]
      importVersion == versions[2]
  IN IF ~SemverValid(importVersion) THEN "INVALID"
     ELSE IF installedVersion = NoVersion THEN "INSTALLED"
     ELSE IF importVersion < installedVersion THEN "OLDER"
     ELSE IF importVersion > installedVersion
       THEN IF ~Truthy(updatePlugins) THEN "UPDATE_BLOCKED" ELSE "UPDATED"
     ELSE "NO_CHANGE"

\* src/lib/AdaptFrameworkUtils.js lines 143-153
getPluginUpdateStatus(versions, isLocalInstall, updatePlugins) ==
  LET installedVersion == versions[1]
      importVersion == versions[2]
  IN IF ~SemverValid(importVersion) THEN "INVALID"
     ELSE IF installedVersion = NoVersion THEN "INSTALLED"
     ELSE IF importVersion < installedVersion THEN "OLDER"
     ELSE IF importVersion > installedVersion
       THEN IF ~Truthy(updatePlugins) /\ ~Truthy(isLocalInstall) THEN "UPDATE_BLOCKED" ELSE "UPDATED"
     ELSE "NO_CHANGE"

\* one call of getPluginUpdateStatus with the arguments held in util
getPluginUpdateStatus_call ==
  /\ util.fn = "getPluginUpdateStatus"
  /\ util.out = "none"
  /\ util' = [util EXCEPT !.out = getPluginUpdateStatus(util.args.versions, util.args.isLocalInstall,
                                                        util.args.updatePlugins)]
  /\ UNCHANGED <<settings, disk, server, importer, contentJson, pc, idx, error, stagesRun, calls, rollback,
                 inflight, raised, result, sortPc, sorted, hierarchy, toSort>>

(***************************************************************************)
(* generateSummary and AdaptFrameworkUtils.getImportSummary                *)
(***************************************************************************)
\* the name and the version of the installed framework; a package that is not compatible declares
\* an older one
FrameworkName == -3
FrameworkVersion == 1
PackageFrameworkVersion(d) == IF d.compatible THEN FrameworkVersion ELSE 0

\* AdaptFrameworkUtils.js lines 118-126: the entry of one element of the list; the versions are
\* those of the element, or the version found in the registry and the version of the element
SummaryEntry(name, versions, version, installedPlugins, updatePlugins) ==
  LET found == name \in DOMAIN installedPlugins
      vs == IF versions # <<>> THEN versions
            ELSE << IF found THEN installedPlugins[name].version ELSE NoVersion, version >>
  IN [name |-> name,
      status |-> getPluginUpdateStatus(vs,
                   IF found THEN JsBool(installedPlugins[name].isLocalInstall) ELSE Undefined,
                   JsBool(updatePlugins)),
      versions |-> vs]

\* AdaptFrameworkUtils.js lines 104-126: contentplugin.find() is read when the summary is made;
\* the list is the framework, the used plugins and the plugins the run installed
SummaryVersions(imp, installedPlugins, d, s) ==
  << SummaryEntry(FrameworkName, <<FrameworkVersion, PackageFrameworkVersion(d)>>, NoVersion,
                  installedPlugins, s.updatePlugins) >>
  \o [i \in 1..Cardinality(DOMAIN imp.usedContentPlugins) |->
        LET p == Ascending(DOMAIN imp.usedContentPlugins)[i]
        IN SummaryEntry(p, <<>>, imp.usedContentPlugins[p].version, installedPlugins, s.updatePlugins)]
  \o [i \in 1..Cardinality(DOMAIN imp.newContentPlugins) |->
        LET p == Ascending(DOMAIN imp.newContentPlugins)[i]
        IN SummaryEntry(p, <<>>, IF p \in DOMAIN installedPlugins THEN installedPlugins[p].version
                                 ELSE NoVersion,
                        installedPlugins, s.updatePlugins)]

\* lines 850-852: getImportSummary queries the plugin registry
generateSummary ==
  /\ Invoke("generateSummary")
  /\ \E ok \in BOOLEAN :
       IF ok THEN importer' = [importer EXCEPT !.summary =
                     [generated |-> TRUE,
                      versions |-> SummaryVersions(importer, server.plugins, disk, settings)]] /\ Advance
             ELSE Throw("SUMMARY_FAILED") /\ UNCHANGED importer
  /\ UNCHANGED <<settings, disk, server, contentJson, calls, rollback, inflight>>
  /\ SortIdle

\* line 7: Object.values(content), in the order the constructor and prepare add the keys; an entry
\* is a document, or the collection of the content objects, whose own values are documents
ObjectValues(content) ==
  << [_type |-> content.course._type, values |-> <<>>],
     [_type |-> Undefined, values |-> content.contentObjects] >>
  \o (IF content.hasConfig THEN << [_type |-> "config", values |-> <<>>] >> ELSE <<>>)

\* lines 9-11: the inner reduce; a document without _type is counted under the key "undefined"
RECURSIVE CountItems(_, _)
CountItems(items, m) ==
  IF items = <<>> THEN m
  ELSE LET t == Head(items)._type
       IN CountItems(Tail(items),
                     [k \in DOMAIN m \cup {t} |->
                        IF k = t THEN (IF t \in DOMAIN m THEN m[t] + 1 ELSE 1) ELSE m[k]])

\* lines 7-12: the outer reduce over the entries
RECURSIVE CountEntriesOf(_, _)
CountEntriesOf(entries, m) ==
  IF entries = <<>> THEN m
  ELSE LET c == Head(entries)
           items == IF c._type # Undefined THEN << [_type |-> c._type] >> ELSE c.values
       IN CountEntriesOf(Tail(entries), CountItems(items, m))

\* variant: every entry is counted as one item, the collection of content objects too
getImportContentCountsFlat(content) ==
  CountItems([i \in 1..Len(ObjectValues(content)) |-> [_type |-> ObjectValues(content)[i]._type]], <<>>)

\* src/lib/utils/getImportContentCounts.js lines 6-13
getImportContentCounts(content) == CountEntriesOf(ObjectValues(content), <<>>)

\* one call of getImportContentCounts with the content held in util
getImportContentCounts_call ==
  /\ util.fn = "getImportContentCounts"
  /\ util.out = <<>>
  /\ util' = [util EXCEPT !.out = << getImportContentCounts(util.args) >>]
  /\ UNCHANGED <<settings, disk, server, importer, contentJson, pc, idx, error, stagesRun, calls, rollback,
                 inflight, raised, result, sortPc, sorted, hierarchy, toSort>>

\* a JSON value: a scalar, an array of values, or an object with its properties
Scalar(kind) == [kind |-> kind, props |-> <<>>, items |-> <<>>]
Array(items) == [kind |-> "array", props |-> <<>>, items |-> items]
Object(props) == [kind |-> "object", props |-> props, items |-> <<>>]

\* variant: only the properties of the document itself are examined
RemoveUndefShallow(data) ==
  IF data.kind # "object" THEN data
  ELSE Object([k \in { q \in DOMAIN data.props : data.props[q].kind # "null" } |-> data.props[k]])

\* src/lib/migrations/remove-undef.js: a property whose value is null is deleted, a property whose
\* value is an object is processed in turn, an array is left as it is
RECURSIVE RemoveUndef(_)
RemoveUndef(data) ==
  IF data.kind # "object" THEN data
  ELSE Object([k \in { q \in DOMAIN data.props : data.props[q].kind # "null" } |->
                 RemoveUndef(data.props[k])])

\* lines 814-818: transformData applies the migration to the document held in util
RemoveUndef_call ==
  /\ util.fn = "RemoveUndef"
  /\ util.out = <<>>
  /\ util' = [util EXCEPT !.out = << RemoveUndef(util.args) >>]
  /\ UNCHANGED <<settings, disk, server, importer, contentJson, pc, idx, error, stagesRun, calls, rollback,
                 inflight, raised, result, sortPc, sorted, hierarchy, toSort>>

(***************************************************************************)
(* Specification of import() over every combination of settings            *)
(***************************************************************************)
\* the package with n plugins, n assets with one tag each and a chain of n content objects
Package(n, compatible) ==
  [plugins |-> [k \in 1..n |-> [version |-> 2]],
   assets |-> [k \in 1..n |-> [file |-> k, tags |-> <<k>>]],
   courseTags |-> <<>>,
   objs |-> [k \in 1..n |-> [_id |-> k, _parentId |-> k - 1]],
   compatible |-> compatible,
   migrated |-> FALSE,
   captureDir |-> FALSE,
   removed |-> FALSE]

\* what the stores have created, installed or overwritten for this run
NothingCreated == [plugins |-> {}, updated |-> {}, assets |-> {}, tags |-> {}, courses |-> {}]

\* the server before the run: the plugins with an even name are installed in an older version
Server(n) ==
  [plugins |-> [k \in { j \in 1..n : j % 2 = 0 } |-> [version |-> 1, isLocalInstall |-> FALSE]],
   tags |-> {},
   assets |-> {},
   content |-> {},
   created |-> NothingCreated, rejected |-> <<>>, courseTags |-> <<>>]

SortUnused ==
  /\ sortPc = "idle"
  /\ sorted = <<>>
  /\ hierarchy = EmptyHierarchy
  /\ toSort = <<>>
  /\ util = NoUtil

ConstructedWith(tags) ==
  /\ importer = NewImporter(tags)
  /\ pc = "start"
  /\ idx = 1
  /\ error = NoError
  /\ stagesRun = <<>>
  /\ calls = NoCalls
  /\ rollback = NoRollback
  /\ inflight = {}
  /\ raised = [value |-> NoError, at |-> 0, data |-> <<>>]
  /\ result = NoResult

\* an importer constructed without tags
Constructed == ConstructedWith(<<>>)

\* the packages of the runs: every size is compatible with the framework, the empty one may also not be
Packages == { Package(n, TRUE) : n \in 0..MaxItems } \cup { Package(0, FALSE) }

Init ==
  /\ settings \in SettingsSet
  /\ disk \in Packages
  /\ server = Server(Len(disk.assets))
  /\ contentJson = NewContentJson
  /\ Constructed
  /\ SortUnused

Next ==
  \/ importBegin
  \/ skipTask
  \/ prepare
  \/ loadAssetData
  \/ loadPluginData
  \/ preImportHook
  \/ importTags
  \/ lateTagInsert
  \/ importCourseAssets
  \/ importCoursePlugins
  \/ loadCourseData
  \/ migrateCourseData
  \/ importCourseData
  \/ generateSummary
  \/ postImportHook
  \/ cleanUp
  \/ lateCompensation
  \/ importEnd

Spec == Init /\ [][Next]_vars

(***************************************************************************)
(* Specification of getSortedData over bounded content sets                *)
(***************************************************************************)
\* _parentId values a content object may carry
ParentIds(n) == (0..n) \cup {GhostId}

\* content sets of up to max objects in file order; the last one may reuse the course _id
ContentSets(max) ==
  UNION { { [i \in 1..n |-> [_id |-> IF i = n /\ dup THEN CourseId ELSE i, _parentId |-> par[i]]] :
              par \in [1..n -> ParentIds(n)], dup \in BOOLEAN }
          : n \in 0..max }

\* the importer holds one of the content sets and has not started anything
SortInputs(max) ==
  /\ contentJson \in { [NewContentJson EXCEPT !.course._id = CourseId, !.course.loaded = TRUE,
                                              !.contentObjects = objs] : objs \in ContentSets(max) }
  /\ settings = [isDryRun |-> Undefined, importContent |-> TRUE, importPlugins |-> TRUE,
                 migrateContent |-> TRUE, updatePlugins |-> FALSE, removeSource |-> TRUE]
  /\ disk = Package(0, TRUE)
  /\ server = Server(0)
  /\ Constructed
  /\ SortUnused

SortNext ==
  \/ getSortedData_begin
  \/ getSortedData_loop
  \/ getSortedData_return

SortInit == SortInputs(MaxObjs)

SortSpec == SortInit /\ [][SortNext]_vars

\* the sort under weak fairness of its steps, over the content sets of up to MaxLoopObjs objects
SortFairInit == SortInputs(MaxLoopObjs)

SortFairSpec == SortFairInit /\ [][SortNext]_vars /\ WF_vars(SortNext)

(***************************************************************************)
(* Specification of the stages up to importCoursePlugins over the ways a   *)
(* used plugin can relate to the plugin registry                           *)
(***************************************************************************)
\* what the registry may hold for a used plugin before the run
RegistryRecords ==
  { [present |-> FALSE, version |-> NoVersion, isLocalInstall |-> FALSE] }
    \cup [present : {TRUE}, version : 0..1, isLocalInstall : BOOLEAN]

\* a used plugin: the version its bower.json declares and its record in the registry
PluginCases == [declared : {InvalidVersion} \cup (0..2), installed : RegistryRecords]

\* the package whose plugins declare the versions of cfg, with no assets and no content objects
PluginPackage(cfg) ==
  [Package(0, TRUE) EXCEPT !.plugins = [k \in DOMAIN cfg |-> [version |-> cfg[k].declared]]]

\* the server whose registry holds the records of cfg
PluginServer(cfg) ==
  [Server(0) EXCEPT !.plugins = [k \in { j \in DOMAIN cfg : cfg[j].installed.present } |->
                                  [version |-> cfg[k].installed.version,
                                   isLocalInstall |-> cfg[k].installed.isLocalInstall]]]

PluginInit ==
  /\ settings \in { st \in SettingsSet : st.importContent /\ st.migrateContent /\ st.removeSource }
  /\ \E n \in 0..MaxPlugins : \E cfg \in [1..n -> PluginCases] :
       disk = PluginPackage(cfg) /\ server = PluginServer(cfg)
  /\ contentJson = NewContentJson
  /\ Constructed
  /\ SortUnused

\* import() up to the second importCoursePlugins entry of the task list
PluginNext ==
  \/ importBegin
  \/ skipTask /\ idx <= 8
  \/ prepare
  \/ loadAssetData
  \/ loadPluginData
  \/ preImportHook
  \/ importTags
  \/ importCourseAssets
  \/ importCoursePlugins

PluginSpec == PluginInit /\ [][PluginNext]_vars

(***************************************************************************)
(* Specification of the stages up to importCourseData over the tags of the *)
(* request, the assets and the course, and the tags of the tag store       *)
(***************************************************************************)
\* the tag titles
Titles == 1..MaxTitles
\* the tag lists of an asset, of the course document or of the request: none or one title
TagLists == {<<>>} \cup { <<t>> : t \in Titles }

\* the package with one asset per entry of assetTags and the course tags courseTags, no plugins
\* and no content objects
TagPackage(assetTags, courseTags) ==
  [Package(0, TRUE) EXCEPT
     !.assets = [k \in DOMAIN assetTags |-> [file |-> k, tags |-> assetTags[k]]],
     !.courseTags = courseTags]

TagInit ==
  /\ settings \in { st \in SettingsSet : /\ st.importContent /\ st.importPlugins /\ st.migrateContent
                                         /\ st.updatePlugins /\ st.removeSource }
  /\ \E n \in 0..MaxItems : \E assetTags \in [1..n -> TagLists], courseTags \in TagLists :
       disk = TagPackage(assetTags, courseTags)
  /\ \E existing \in SUBSET Titles : server = [Server(0) EXCEPT !.tags = existing]
  /\ contentJson = NewContentJson
  /\ \E tags \in TagLists : ConstructedWith(tags)
  /\ SortUnused

\* import() up to the importCourseData entry of the task list
TagNext ==
  \/ importBegin
  \/ skipTask /\ idx <= 12
  \/ prepare
  \/ loadAssetData
  \/ loadPluginData
  \/ preImportHook
  \/ importTags
  \/ lateTagInsert
  \/ importCourseAssets
  \/ importCoursePlugins
  \/ loadCourseData
  \/ migrateCourseData
  \/ importCourseData

TagSpec == TagInit /\ [][TagNext]_vars

(***************************************************************************)
(* Specification of the stages up to importCourseData over bounded content *)
(* sets                                                                    *)
(***************************************************************************)
\* the package whose language directory holds the content objects objs, with no plugins and assets
ContentPackage(objs) == [Package(0, TRUE) EXCEPT !.objs = objs]

ContentInit ==
  /\ settings \in { st \in SettingsSet : /\ st.isDryRun # "true" /\ st.importContent /\ st.importPlugins
                                         /\ st.migrateContent /\ st.updatePlugins /\ st.removeSource }
  /\ disk \in { ContentPackage(objs) : objs \in ContentSets(MaxDocs) }
  /\ server = Server(0)
  /\ contentJson = NewContentJson
  /\ Constructed
  /\ SortUnused

\* import() up to the importCourseData entry of the task list
ContentNext ==
  \/ importBegin
  \/ skipTask
  \/ prepare
  \/ loadAssetData
  \/ loadPluginData
  \/ preImportHook
  \/ importTags
  \/ importCourseAssets
  \/ importCoursePlugins
  \/ loadCourseData
  \/ migrateCourseData
  \/ importCourseData

ContentSpec == ContentInit /\ [][ContentNext]_vars

(***************************************************************************)
(* Specification of getPluginUpdateStatus over bounded versions            *)
(***************************************************************************)
\* the importer is constructed and nothing has been started
Idle ==
  /\ settings = [isDryRun |-> Undefined, importContent |-> TRUE, importPlugins |-> TRUE,
                 migrateContent |-> TRUE, updatePlugins |-> FALSE, removeSource |-> TRUE]
  /\ disk = Package(0, TRUE)
  /\ server = Server(0)
  /\ contentJson = NewContentJson
  /\ Constructed
  /\ sortPc = "idle" /\ sorted = <<>> /\ hierarchy = EmptyHierarchy /\ toSort = <<>>

\* installed versions: valid or absent; import versions: valid, not valid semver, or absent;
\* the flags: true, false or undefined
StatusInit ==
  /\ Idle
  /\ util \in [fn : {"getPluginUpdateStatus"},
                args : [versions : ((0..MaxVersion) \cup {NoVersion})
                                     \X ((0..MaxVersion) \cup {InvalidVersion, NoVersion}),
                        isLocalInstall : {"true", "false", Undefined},
                        updatePlugins : {"true", "false", Undefined}],
                out : {"none"}]

StatusNext == getPluginUpdateStatus_call

StatusSpec == StatusInit /\ [][StatusNext]_vars

(***************************************************************************)
(* Specification of getImportContentCounts over bounded content            *)
(***************************************************************************)
ContentTypes == {"page", "menu", Undefined}
\* the content objects in the order they were added
DocSeqs(max) == UNION { [1..n -> [_type : ContentTypes]] : n \in 0..max }

\* the course is loaded or still the empty object of the constructor; config.json is loaded or not
CountInit ==
  /\ Idle
  /\ util \in [fn : {"getImportContentCounts"},
                args : [course : [_type : {"course", Undefined}],
                        hasConfig : BOOLEAN,
                        contentObjects : DocSeqs(MaxDocs)],
                out : {<<>>}]

CountNext == getImportContentCounts_call

CountSpec == CountInit /\ [][CountNext]_vars

(***************************************************************************)
(* Specification of the RemoveUndef migration over bounded documents       *)
(***************************************************************************)
\* null and the falsy values that are not null
Scalars == { Scalar(k) : k \in {"null", "zero", "false", "empty"} }
\* the elements of an array: scalars, and an object that has a null property
ArrayItems == { Scalar("null"), Scalar("zero"), Object([k \in {"a"} |-> Scalar("null")]) }
Arrays(len) == { Array(q) : q \in UNION { [1..n -> ArrayItems] : n \in 0..len } }
\* an object has a property "a" with any value of the level below, or none, and a property "b"
\* with a scalar, or none
RECURSIVE JsonValues(_, _)
JsonValues(depth, len) ==
  IF depth = 0 THEN Scalars \cup Arrays(len)
  ELSE Scalars \cup Arrays(len) \cup
       { Object([k \in ks |-> IF k = "a" THEN va ELSE vb]) :
           ks \in SUBSET {"a", "b"}, va \in JsonValues(depth - 1, len), vb \in Scalars }
Documents(depth, len) == { v \in JsonValues(depth + 1, len) : v.kind = "object" }

MigrationInit ==
  /\ Idle
  /\ util \in [fn : {"RemoveUndef"}, args : Documents(MaxNest, MaxArr), out : {<<>>}]

MigrationNext == RemoveUndef_call

MigrationSpec == MigrationInit /\ [][MigrationNext]_vars

(***************************************************************************)
(* handlers.getHandler and AdaptFrameworkUtils.retrieveBuildData           *)
(***************************************************************************)
BuildIds == 1..MaxBuilds
RequestIds == 1..MaxRequests
\* a document of the adaptbuilds collection
BuildRecord(id, expiresAt) == [_id |-> id, expiresAt |-> expiresAt]
\* mdb.find('adaptbuilds', { _id: id }): the array of the documents that match
find(adaptbuilds, id) == adaptbuilds[id]
\* const [data] = ...: the first element of the array, undefined (here the empty sequence) if none
FirstOf(found) == IF Len(found) = 0 THEN <<>> ELSE <<found[1]>>
\* if (buildCache[id]): the key holds a value that is not undefined
CacheHit(buildCache, id) == id \in buildCache.keys /\ Len(buildCache.vals[id]) > 0
\* new Date(buildData.expiresAt).getTime() < Date.now()
Expired(buildData, now) == buildData[1].expiresAt < now
\* the test of getHandler that refuses a build
NotFound(buildData, now) == Len(buildData) = 0 \/ Expired(buildData, now)
\* what getHandler answers once it holds the build data
Answer(req, now) ==
  IF NotFound(req.buildData, now) THEN "FW_BUILD_NOT_FOUND"
  ELSE IF req.action \in {"publish", "export"} THEN "sendFile"
  ELSE IF ~req.user THEN "MISSING_AUTH_HEADER"
  ELSE "sendFile"

NewRequest == [id |-> 0, action |-> Undefined, user |-> FALSE, pc |-> "idle", buildData |-> <<>>,
               cached |-> FALSE, res |-> Undefined]

\* getHandler up to the first await of retrieveBuildData: the cache is tested
getHandler(r) ==
  /\ util.reqs[r].pc = "idle"
  /\ \E id \in BuildIds, action \in {"publish", "preview"}, user \in BOOLEAN :
       LET req == [util.reqs[r] EXCEPT !.id = id, !.action = action, !.user = user] IN
       IF CacheHit(util.buildCache, id)
       THEN util' = [util EXCEPT !.reqs[r] = [req EXCEPT !.pc = "retrieved", !.cached = TRUE,
                                                       !.buildData = util.buildCache.vals[id]]]
       ELSE util' = [util EXCEPT !.reqs[r] = [req EXCEPT !.pc = "find"]]
  /\ UNCHANGED <<settings, disk, server, importer, contentJson, pc, idx, error, stagesRun, calls,
                 rollback, inflight, raised, result, sortPc, sorted, hierarchy, toSort>>

\* retrieveBuildData after its awaits: the database answers, the answer is stored in the cache
retrieveBuildData(r) ==
  /\ util.reqs[r].pc = "find"
  /\ LET id == util.reqs[r].id
         data == FirstOf(find(util.adaptbuilds, id))
     IN util' = [util EXCEPT !.finds[id] = @ + 1,
                             !.buildCache = [keys |-> @.keys \cup {id},
                                             vals |-> [@.vals EXCEPT ![id] = data]],
                             !.reqs[r] = [@ EXCEPT !.pc = "retrieved", !.buildData = data]]
  /\ UNCHANGED <<settings, disk, server, importer, contentJson, pc, idx, error, stagesRun, calls,
                 rollback, inflight, raised, result, sortPc, sorted, hierarchy, toSort>>

\* waitForModule or mdb.find rejects: getHandler passes the error on
retrieveBuildDataFails(r) ==
  /\ util.reqs[r].pc = "find"
  /\ util.faults < MaxFaults
  /\ util' = [util EXCEPT !.faults = @ + 1,
                          !.reqs[r] = [@ EXCEPT !.pc = "done", !.res = "error"]]
  /\ UNCHANGED <<settings, disk, server, importer, contentJson, pc, idx, error, stagesRun, calls,
                 rollback, inflight, raised, result, sortPc, sorted, hierarchy, toSort>>

\* getHandler after retrieveBuildData resolved
getHandlerAnswers(r) ==
  /\ util.reqs[r].pc = "retrieved"
  /\ util' = [util EXCEPT !.reqs[r] = [@ EXCEPT !.pc = "done", !.res = Answer(util.reqs[r], util.now)]]
  /\ UNCHANGED <<settings, disk, server, importer, contentJson, pc, idx, error, stagesRun, calls,
                 rollback, inflight, raised, result, sortPc, sorted, hierarchy, toSort>>

\* Date.now() moves on
Tick ==
  /\ util.now < MaxTime
  /\ util' = [util EXCEPT !.now = @ + 1]
  /\ UNCHANGED <<settings, disk, server, importer, contentJson, pc, idx, error, stagesRun, calls,
                 rollback, inflight, raised, result, sortPc, sorted, hierarchy, toSort>>

\* the collection holds, for each id, no document or one document that expires at some time
BuildCollections ==
  { c \in [BuildIds -> {<<>>} \cup { <<BuildRecord(id, e)>> : id \in BuildIds, e \in 1..MaxTime }] :
      \A id \in BuildIds : Len(c[id]) > 0 => c[id][1]._id = id }

BuildInit ==
  /\ Idle
  /\ \E c \in BuildCollections :
       util = [fn |-> "getHandler",
               adaptbuilds |-> c,
               buildCache |-> [keys |-> {}, vals |-> [id \in BuildIds |-> <<>>]],
               now |-> 0,
               finds |-> [id \in BuildIds |-> 0],
               faults |-> 0,
               reqs |-> [r \in RequestIds |-> NewRequest]]

BuildNext ==
  \/ \E r \in RequestIds : getHandler(r)
  \/ \E r \in RequestIds : retrieveBuildData(r)
  \/ \E r \in RequestIds : retrieveBuildDataFails(r)
  \/ \E r \in RequestIds : getHandlerAnswers(r)
  \/ Tick

BuildSpec == BuildInit /\ [][BuildNext]_vars

(***************************************************************************)
(* Properties of getSortedData                                             *)
(***************************************************************************)
Objs == contentJson.contentObjects
ObjIds == { Objs[i]._id : i \in 1..Len(Objs) }
ParentOfId(id) == Objs[CHOOSE i \in 1..Len(Objs) : Objs[i]._id = id]._parentId

\* the _ids of the objects whose parent chain reaches the course
RECURSIVE ReachFrom(_)
ReachFrom(S) ==
  LET more == S \cup { Objs[i]._id : i \in { j \in 1..Len(Objs) : Objs[j]._parentId \in S \cup {CourseId} } }
  IN IF more = S THEN S ELSE ReachFrom(more)
Reachable == ReachFrom({})

\* the content set is a tree rooted at the course
WellFormed == CourseId \notin ObjIds /\ ObjIds \subseteq Reachable

\* an object whose parent is neither the course nor an object reachable from the course
HasOrphan == \E i \in 1..Len(Objs) : Objs[i]._parentId # CourseId /\ Objs[i]._parentId \notin Reachable

\* the level of an object of a well-formed set: 1 for the children of the course
RECURSIVE DepthOf(_)
DepthOf(id) == IF ParentOfId(id) = CourseId THEN 1 ELSE 1 + DepthOf(ParentOfId(id))

\* the positions of an _id in the levels of `sorted`
PositionsOf(id) == { lk \in UNION { { <<l, k>> : k \in 1..Len(sorted[l]) } : l \in 1..Len(sorted) } :
                       sorted[lk[1]][lk[2]] = id }

SortEnded == sortPc \in {"returned", "thrown"}

\* C6: for a content set that is a tree rooted at the course getSortedData returns, and the levels
\* hold every object _id exactly once, each in the level right after its parent's, never the course _id
C6_SortedIsLevelOrder ==
  (SortEnded /\ WellFormed) =>
    /\ sortPc = "returned"
    /\ PositionsOf(CourseId) = {}
    /\ \A id \in ObjIds : \E lk \in PositionsOf(id) : PositionsOf(id) = {lk} /\ lk[1] = DepthOf(id)

\* C7: a content set with an object whose parent is neither the course nor reachable from the
\* course makes getSortedData throw FW_IMPORT_UNEXPECTED_STRUCTURE instead of returning
C7_OrphanThrows == (SortEnded /\ HasOrphan) => sortPc = "thrown"

\* C8: getSortedData terminates on every content set: it returns or throws
C8_SortTerminates == <>SortEnded

\* an object that is its own ancestor
HasCycle ==
  \E i \in 1..Len(Objs) :
    LET RECURSIVE Up(_, _)
        Up(id, fuel) == IF fuel = 0 \/ id \notin ObjIds THEN FALSE
                        ELSE ParentOfId(id) = Objs[i]._id \/ Up(ParentOfId(id), fuel - 1)
    IN Up(Objs[i]._id, Len(Objs))

\* C8 witness: the sort has ended on a set with a parent cycle, an orphan and an object that
\* carries the course _id
C8_Witness == SortEnded /\ HasCycle /\ HasOrphan /\ CourseId \in ObjIds

\* the cap on the levels never stops the loop
LevelCapUnused == Len(sorted) <= Len(Objs) + 1

(***************************************************************************)
(* Properties of import() and cleanUp                                      *)
(***************************************************************************)
\* the stage that threw, when one did
ThrowingStage == IF raised.at = 0 THEN "import" ELSE stagesRun[raised.at]
StageThrew == raised.value # NoError /\ ThrowingStage # "postImportHook"
Ran(func) == \E i \in 1..Len(stagesRun) : stagesRun[i] = func
TimesRun(func) == Cardinality({ i \in 1..Len(stagesRun) : stagesRun[i] = func })

\* C1: when a stage throws, no later stage and no postImportHook runs, cleanUp is called exactly
\* once with the error, and import() rejects with the same error
C1_StageFailureAborts ==
  StageThrew =>
    /\ Len(stagesRun) = raised.at
    /\ ~Ran("postImportHook")
    /\ (pc = "cleanUp" => rollback.invocations = <<>>)
    /\ (pc \in {"cleanedUp", "done"} => rollback.invocations = <<raised.value>>)
    /\ (pc = "done" => result = [status |-> "rejected", value |-> raised.value])

\* C1 witness: import() has rejected after importCoursePlugins threw
C1_Witness ==
  /\ pc = "done"
  /\ raised.value = "FW_IMPORT_PLUGINS_FAILED"
  /\ ThrowingStage = "importCoursePlugins"
  /\ result.status = "rejected"

\* C2: with removeSource, once a run that created a course has rejected, the compensation call has
\* been made for every plugin it installed or updated, every asset and tag it created and its course
C2_RollbackComplete ==
  (pc = "done" /\ settings.removeSource /\ result.status = "rejected" /\ server.created.courses # {}) =>
    /\ \A p \in server.created.plugins : PluginRecordId(p) \in Args(calls, "contentplugin", "uninstallPlugin")
    /\ \A p \in server.created.updated : p \in Args(calls, "contentplugin", "restorePluginFromBackup")
    /\ \A a \in server.created.assets : AssetId(a) \in Args(calls, "assets", "delete")
    /\ \A t \in server.created.tags : TagId(t) \in Args(calls, "tags", "delete")
    /\ \A c \in server.created.courses :
         c \in Args(calls, "content", "deleteMany") /\ c \in Args(calls, "courseassets", "deleteMany")

\* the compensation operations the bookkeeping of the run calls for
DueOps ==
  UninstallOps(importer) \cup RestoreOps(importer) \cup AssetOps(importer) \cup TagOps(importer)
    \cup (IF contentJson.course._id \in DOMAIN importer.idMap
            THEN ContentOps(importer.idMap[contentJson.course._id]) ELSE {})

\* the compensation operations left once the ones that failed are set aside: a failed tag-module
\* lookup takes the tag deletions with it
OtherOps == (DueOps \ rollback.failed) \ (IF rollback.aborted THEN TagOps(importer) ELSE {})

\* C3: whatever compensation action fails, every other one is started and awaited, cleanUp does
\* not throw and import() rejects with the error of the stage
C3_CompensationBestEffort ==
  [][(cleanUp /\ settings.removeSource /\ error # NoError) =>
       /\ OtherOps' \subseteq rollback'.started
       /\ OtherOps' \subseteq rollback'.awaited
       /\ importResult(error') = [status |-> "rejected", value |-> raised.value]]_vars

\* C4: with removeSource false a failed run keeps the directory and still compensates
C4_KeepSourceStillCompensates ==
  [][(cleanUp /\ ~settings.removeSource /\ error # NoError) =>
       /\ RmOps \cap rollback'.started = {}
       /\ DueOps' \subseteq rollback'.started]_vars

\* C5: a dry run makes no content.insert, content.update, assets.insert, tags.insert or
\* installPlugins call
C5_DryRunWritesNothing ==
  settings.isDryRun = "true" =>
    /\ Count(calls, "content", "insert") = 0
    /\ Count(calls, "content", "update") = 0
    /\ Count(calls, "assets", "insert") = 0
    /\ Count(calls, "tags", "insert") = 0
    /\ Count(calls, "contentplugin", "installPlugins") = 0

\* C5 witness: a dry run over a package with plugins, assets and tags has gone through the tag,
\* asset and plugin stages and resolved
C5_Witness ==
  /\ pc = "done"
  /\ settings.isDryRun = "true"
  /\ result.status = "resolved"
  /\ Len(disk.assets) = MaxItems
  /\ Ran("importTags") /\ Ran("importCourseAssets") /\ Ran("importCoursePlugins") /\ Ran("loadCourseData")

\* the order of the stages as the claim lists it
ClaimedOrder ==
  <<"prepare", "loadAssetData", "loadPluginData", "preImportHook", "importTags", "importCourseAssets",
    "importCoursePlugins", "loadCourseData", "migrateCourseData", "loadCourseData", "importCourseData",
    "generateSummary", "postImportHook">>

\* run is obtained from order by leaving entries out
RECURSIVE IsSubsequence(_, _)
IsSubsequence(run, order) ==
  IF run = <<>> THEN TRUE
  ELSE IF order = <<>> THEN FALSE
  ELSE IF Head(run) = Head(order) THEN IsSubsequence(Tail(run), Tail(order))
  ELSE IsSubsequence(run, Tail(order))

\* C9: the stages run one after another in the listed order, and a stage whose guard is false is
\* not invoked and appends nothing to statusReport
C9_StagesInListedOrder ==
  /\ [](IsSubsequence(stagesRun, ClaimedOrder))
  /\ [][skipTask => (stagesRun' = stagesRun /\ importer'.statusReport = importer.statusReport)]_vars

\* the run is over or in cleanUp
PastStages == pc \in {"cleanUp", "cleanedUp", "done"}

\* C10: a run in which no stage throws executes generateSummary and then postImportHook, exactly
\* once; a run in which a stage throws never invokes postImportHook
C10_SummaryThenPostHook ==
  PastStages =>
    IF StageThrew THEN ~Ran("postImportHook")
    ELSE /\ TimesRun("generateSummary") = 1
         /\ TimesRun("postImportHook") = 1
         /\ Len(stagesRun) >= 2
         /\ stagesRun[Len(stagesRun)] = "postImportHook"
         /\ stagesRun[Len(stagesRun) - 1] = "generateSummary"

\* C10 witness: a run with importContent false has resolved
C10_Witness ==
  /\ pc = "done"
  /\ result.status = "resolved"
  /\ ~settings.importContent
  /\ Ran("generateSummary")

(***************************************************************************)
(* Properties of getPluginUpdateStatus                                     *)
(***************************************************************************)
StatusReturned == util.fn = "getPluginUpdateStatus" /\ util.out # "none"

PluginStageStep == stagesRun' = Append(stagesRun, "importCoursePlugins")
\* the step got the installed plugins from the registry (line 615)
RegistryRead == error' # "PLUGIN_REGISTRY_FAILED"
RealRun == ~Truthy(settings.isDryRun)
\* the plugins the package uses that have no record in the registry
MissingPlugins == { p \in DOMAIN disk.plugins : p \notin DOMAIN server.plugins }
\* the plugins installPlugins was invoked for
InstallerCalls == Args(calls, "contentplugin", "installPlugins")

PluginEntriesPassed == pc = "tasks" /\ idx > 8
HasWarning(code) ==
  \E i \in 1..Len(importer.statusReport.warn) : importer.statusReport.warn[i].code = code

\* C13: in a dry run with importPlugins=false, the used plugins that are not installed are
\* recorded as a warning in the status report, and the run does not fail because of them
C13_DryRunWarnsOfMissing ==
  (Truthy(settings.isDryRun) /\ ~settings.importPlugins /\ MissingPlugins # {})
    => /\ error \notin {"FW_IMPORT_MISSING_PLUGINS", "TypeError"}
       /\ (PluginEntriesPassed => HasWarning("MISSING_PLUGINS"))

\* the used plugins whose declared version is not valid semver
InvalidUsed == { p \in DOMAIN disk.plugins : disk.plugins[p].version = InvalidVersion }
\* how many entries with this code and plugin name a list of the status report holds
Entries(list, code, p) ==
  Cardinality({ i \in 1..Len(list) : list[i] = [code |-> code, data |-> p] })

\* C14: for a used plugin whose declared version is not valid semver: if it is not installed,
\* importCoursePlugins throws FW_INVALID_VERSION before any installPlugins call; if it is installed,
\* the batch that gets past the version checks appends an INVALID_PLUGIN_VERSION warning for it and
\* treats it as 0.0.0 (migrated when the installed version is higher), and installPlugins is never
\* invoked for it
C14_InvalidVersion ==
  /\ [][(PluginStageStep /\ RegistryRead) =>
         /\ (InvalidUsed \ DOMAIN server.plugins # {}
               => error' = "FW_INVALID_VERSION" /\ InstallerCalls' = {})
         /\ (error' # "FW_INVALID_VERSION" =>
               \A p \in InvalidUsed \cap DOMAIN server.plugins :
                 /\ Entries(importer'.statusReport.warn, "INVALID_PLUGIN_VERSION", p)
                      = Entries(importer.statusReport.warn, "INVALID_PLUGIN_VERSION", p) + 1
                 /\ (server.plugins[p].version > 0 <=>
                       Len(Keep(importer'.pluginsToMigrate, {p}))
                         = Len(Keep(importer.pluginsToMigrate, {p})) + 1))]_vars
  /\ [](InvalidUsed \cap InstallerCalls = {})

C14_Witness ==
  /\ error = "FW_INVALID_VERSION"
  /\ HasWarning("INVALID_PLUGIN_VERSION")

\* the version importCoursePlugins compares for used plugin p (lines 622-629)
ImportVersion(p) ==
  IF disk.plugins[p].version = InvalidVersion THEN 0 ELSE disk.plugins[p].version
\* the used plugins whose version is strictly lower than the installed one
LowerUsed ==
  { p \in DOMAIN disk.plugins \cap DOMAIN server.plugins : ImportVersion(p) < server.plugins[p].version }
\* the batch ran its forEach over all used plugins
BatchReconciled == PluginStageStep /\ RegistryRead /\ error' # "FW_INVALID_VERSION"

\* C15: for a used plugin whose version is strictly lower than the installed version, installPlugins
\* is never invoked, whatever updatePlugins and importPlugins are, and every batch of
\* importCoursePlugins appends its name to pluginsToMigrate and a PLUGIN_INSTALL_MIGRATING info entry
C15_OlderIsMigrated ==
  /\ [](LowerUsed \cap InstallerCalls = {})
  /\ [][BatchReconciled =>
         \A p \in LowerUsed :
           /\ Len(Keep(importer'.pluginsToMigrate, {p})) = Len(Keep(importer.pluginsToMigrate, {p})) + 1
           /\ Entries(importer'.statusReport.info, "PLUGIN_INSTALL_MIGRATING", p)
                = Entries(importer.statusReport.info, "PLUGIN_INSTALL_MIGRATING", p) + 1]_vars

C15_Witness ==
  /\ settings.updatePlugins /\ settings.importPlugins
  /\ InstallerCalls # {}
  /\ \E p \in LowerUsed : Keep(importer.pluginsToMigrate, {p}) = <<p>>

\* the plugins installPlugins is invoked for by the step
NewInstallerCalls ==
  { calls'.contentplugin[i].arg :
      i \in { j \in (Len(calls.contentplugin) + 1)..Len(calls'.contentplugin) :
                calls'.contentplugin[j].op = "installPlugins" } }
\* the used plugins whose version is strictly newer than the installed one
NewerUsed ==
  { p \in DOMAIN disk.plugins \cap DOMAIN server.plugins : ImportVersion(p) > server.plugins[p].version }
\* the installed, non-local plugins with a strictly newer used version
ManagedNewerUsed == { p \in NewerUsed : ~server.plugins[p].isLocalInstall }

\* C16: with updatePlugins=false a batch of importCoursePlugins never invokes installPlugins for a
\* plugin that is already installed, and it appends exactly one MANAGED_PLUGIN_UPDATE_DISABLED
\* warning if at least one installed, non-local plugin has a strictly newer used version, and none
\* otherwise
C16_UpdatesDisabled ==
  [][(PluginStageStep /\ ~settings.updatePlugins) =>
       /\ NewInstallerCalls \cap DOMAIN server.plugins = {}
       /\ (BatchReconciled =>
             Entries(importer'.statusReport.warn, "MANAGED_PLUGIN_UPDATE_DISABLED", 0)
               = Entries(importer.statusReport.warn, "MANAGED_PLUGIN_UPDATE_DISABLED", 0)
                   + (IF ManagedNewerUsed # {} THEN 1 ELSE 0))]_vars

C16_Witness ==
  /\ ~settings.updatePlugins
  /\ Cardinality(ManagedNewerUsed) = 2
  /\ Entries(importer.statusReport.warn, "MANAGED_PLUGIN_UPDATE_DISABLED", 0) = 1

\* what C17 asks of the step for the used plugin p that is strictly newer than the installed one
UpdatedByStep(p) ==
  /\ p \in NewInstallerCalls
  /\ p \in DOMAIN importer'.updatedContentPlugins
  /\ importer'.updatedContentPlugins[p] = server.plugins[p]
  /\ (~server.plugins[p].isLocalInstall =>
        Entries(importer'.statusReport.warn, "MANAGED_PLUGIN_INSTALL_SKIPPED", p)
          = Entries(importer.statusReport.warn, "MANAGED_PLUGIN_INSTALL_SKIPPED", p) + 1)

\* C17: in a real run with updatePlugins=true, a batch of importCoursePlugins that returns passes
\* every used plugin whose version is strictly newer than the installed one to installPlugins, also
\* when no plugin has to be newly installed, with its pre-update registry record stored in
\* updatedContentPlugins; for a non-local plugin a managed-plugin warning is appended and the
\* update still proceeds
C17_NewerIsUpdated ==
  [][(BatchReconciled /\ RealRun /\ settings.updatePlugins /\ error' = NoError)
       => \A p \in NewerUsed : UpdatedByStep(p)]_vars

\* the same for the batches that also have a plugin to install
C17_UpdatedAlongsideInstall ==
  [][(BatchReconciled /\ RealRun /\ settings.updatePlugins /\ error' = NoError /\ MissingPlugins # {})
       => \A p \in NewerUsed : UpdatedByStep(p)]_vars

\* the awaited calls of the install loop that rejected during the step
NewRejected == { server'.rejected[i] : i \in (Len(server.rejected) + 1)..Len(server'.rejected) }
\* the plugins the install loop of the batch is given (line 665)
Queued == MissingPlugins \cup (IF settings.updatePlugins THEN NewerUsed ELSE {})
\* the batch reaches the install loop
InstallLoopEntered == BatchReconciled /\ MissingPlugins # {} /\ settings.importPlugins

\* C18: in a real run, a batch of importCoursePlugins that reaches its install loop attempts the
\* installer for every queued plugin even when some attempts fail; a failure with code EEXIST is
\* ignored; the stage throws FW_IMPORT_PLUGINS_FAILED, after all attempts, if and only if at least
\* one attempt failed for another reason, and the error names the plugins that failed so
C18_InstallBestEffort ==
  [][(InstallLoopEntered /\ RealRun) =>
       /\ \A q \in Queued :
            \/ q \in NewInstallerCalls
            \/ [op |-> "readJson", arg |-> q, code |-> "unreadable"] \in NewRejected
       /\ error' \in {NoError, "FW_IMPORT_PLUGINS_FAILED"}
       /\ (error' = "FW_IMPORT_PLUGINS_FAILED" <=> \E r \in NewRejected : r.code # "EEXIST")
       /\ (error' = "FW_IMPORT_PLUGINS_FAILED" =>
             Range(raised'.data) = { r.arg : r \in { x \in NewRejected : x.code # "EEXIST" } })]_vars

C18_Witness ==
  /\ RealRun
  /\ error = "FW_IMPORT_PLUGINS_FAILED"
  /\ server.rejected = << [op |-> "installPlugins", arg |-> 1, code |-> "failed"] >>
  /\ InstallerCalls = {1, 2}
  /\ 2 \in server.created.plugins

\* a batch whose only failing attempt has code EEXIST returns normally
C18_IgnoredWitness ==
  /\ RealRun
  /\ error = NoError
  /\ server.rejected = << [op |-> "installPlugins", arg |-> 1, code |-> "EEXIST"] >>
  /\ InstallerCalls = {1, 2}
  /\ PluginEntriesPassed

(***************************************************************************)
(* Properties of importCourseData                                          *)
(***************************************************************************)
\* the step of import() that invokes importCourseData
ContentStageStep == stagesRun' = Append(stagesRun, "importCourseData")
\* the calls the step makes to the content store, and those of its calls that rejected
NewContentCalls == SubSeq(calls'.content, Len(calls.content) + 1, Len(calls'.content))
NewRejectedCalls == SubSeq(server'.rejected, Len(server.rejected) + 1, Len(server'.rejected))
\* the try block of lines 723-730 completed: course and config are inserted and the course updated
CourseAndConfigStored ==
  /\ Len(NewContentCalls) >= 3
  /\ \A i \in 1..Len(NewRejectedCalls) : NewRejectedCalls[i].op # "update"
\* the insert calls of the step after the try block
DocAttempts == SubSeq(NewContentCalls, 4, Len(NewContentCalls))
\* how often id x occurs in the levels
RECURSIVE Occurrences(_, _)
Occurrences(levels, x) ==
  IF levels = <<>> THEN 0
  ELSE Len(Keep(Head(levels), {x})) + Occurrences(Tail(levels), x)
RECURSIVE TotalLen(_)
TotalLen(levels) == IF levels = <<>> THEN 0 ELSE Len(Head(levels)) + TotalLen(Tail(levels))

\* C19: in importCourseData, once course and config are stored (and updated) and getSortedData has
\* returned, insertion is attempted for every id of every level of `sorted` even when earlier
\* documents failed; the stage throws FW_IMPORT_CONTENT_FAILED if and only if at least one
\* document failed, and the error's list holds exactly one entry per failing document, in order
C19_ContentBestEffort ==
  [][(ContentStageStep /\ CourseAndConfigStored /\ ~getSortedData(contentJson).thrown) =>
       LET srt == getSortedData(contentJson).sorted
       IN /\ Len(DocAttempts) = TotalLen(srt)
          /\ \A i \in 1..Len(DocAttempts) : DocAttempts[i].op = "insert"
          /\ \A x \in ObjIds \cup {CourseId} :
               Cardinality({ i \in 1..Len(DocAttempts) : DocAttempts[i].arg = x }) = Occurrences(srt, x)
          /\ error' \in {NoError, "FW_IMPORT_CONTENT_FAILED"}
          /\ (error' = "FW_IMPORT_CONTENT_FAILED" <=> NewRejectedCalls # <<>>)
          /\ (error' = "FW_IMPORT_CONTENT_FAILED" =>
                raised'.data = [i \in 1..Len(NewRejectedCalls) |-> NewRejectedCalls[i].arg])]_vars

C19_Witness ==
  /\ error = "FW_IMPORT_CONTENT_FAILED"
  /\ server.rejected = << Rejected("insert", 1) >>
  /\ raised.data = <<1>>
  /\ \E i, j \in 1..Len(calls.content) :
       /\ i < j
       /\ calls.content[i] = [op |-> "insert", arg |-> 1]
       /\ calls.content[j] = [op |-> "insert", arg |-> 2]
  /\ InsertedDoc(2, NewDocId(CourseId)) \in server.content

\* the persisted id of the course this run inserted
PersistedCourse == NewDocId(CourseId)
\* the positions in the call log of the insertions of content objects: those after the insertion
\* of course and config and the course update
ObjectInserts == { j \in 4..Len(calls.content) : calls.content[j].op = "insert" }
\* the documents of the content store that were inserted for content objects
ObjectDocs == { d \in server.content : d.local \in { calls.content[j].arg : j \in ObjectInserts } }

C32_CourseConfigFirst ==
  [][ContentStageStep =>
       LET n == Len(NewContentCalls)
           course == contentJson.course._id
           first == << [op |-> "insert", arg |-> course],
                       [op |-> "insert", arg |-> ConfigId],
                       [op |-> "update", arg |-> NewDocId(course)] >>
       IN /\ n >= 1
          /\ \A i \in 1..n : IF i <= 3 THEN NewContentCalls[i] = first[i]
                                        ELSE NewContentCalls[i].op = "insert"
          /\ ~CourseAndConfigStored =>
                /\ error' = "FW_IMPORT_CONTENT_FAILED"
                /\ Len(raised'.data) = 1
                /\ Len(NewRejectedCalls) = 1
                /\ n <= 3
                /\ NewRejectedCalls[1] = [op |-> first[n].op, arg |-> first[n].arg, code |-> "failed"]]_vars

\* C32 witness: the config was rejected after the course was stored, and a package with content
\* objects got none of them attempted
C32_Witness ==
  /\ Ran("importCourseData")
  /\ error = "FW_IMPORT_CONTENT_FAILED"
  /\ calls.content = << [op |-> "insert", arg |-> CourseId], [op |-> "insert", arg |-> ConfigId] >>
  /\ server.rejected = << Rejected("insert", ConfigId) >>
  /\ Len(contentJson.contentObjects) >= 2

(***************************************************************************)
(* Properties of importCourseAssets and importTags                         *)
(***************************************************************************)
\* the step of import() that invokes importCourseAssets
AssetStageStep == stagesRun' = Append(stagesRun, "importCourseAssets")
\* the files of the asset entries
AssetFiles == { importer.assetData[i].file : i \in 1..Len(importer.assetData) }
\* the calls the step makes to the asset store
NewAssetCalls == SubSeq(calls'.assets, Len(calls.assets) + 1, Len(calls'.assets))

\* C21: in a real run importCourseAssets returns whatever assets.insert does: the insert is
\* attempted once for every asset, exactly one ASSET_IMPORT_FAILED warning is appended per asset
\* whose insert failed and none for the others, and assetMap holds an entry exactly for the assets
\* the store has accepted
C21_AssetFailuresAreWarnings ==
  [][(AssetStageStep /\ RealRun) =>
       /\ error' = NoError /\ idx' = idx + 1
       /\ Len(NewAssetCalls) = Len(importer.assetData)
       /\ \A f \in AssetFiles :
            /\ Cardinality({ i \in 1..Len(NewAssetCalls) :
                               NewAssetCalls[i] = [op |-> "insert", arg |-> f] }) = 1
            /\ Entries(importer'.statusReport.warn, "ASSET_IMPORT_FAILED", f)
                 = Entries(importer.statusReport.warn, "ASSET_IMPORT_FAILED", f)
                     + (IF f \in server'.assets THEN 0 ELSE 1)
       /\ DOMAIN importer'.assetMap = AssetFiles \cap server'.assets]_vars

C21_Witness ==
  /\ RealRun
  /\ Len(importer.assetData) = 2
  /\ Len(calls.assets) = 2
  /\ server.assets = {2}
  /\ DOMAIN importer.assetMap = {2}
  /\ Entries(importer.statusReport.warn, "ASSET_IMPORT_FAILED", 1) = 1

\* the step of import() that invokes importTags
TagStageStep == stagesRun' = Append(stagesRun, "importTags")
\* the step got the tags of the tag store (lines 540-541)
TagStoreRead == error' # "TAG_STORE_FAILED"
\* the tag titles the package and the request refer to
ReferencedTitles ==
  Range(disk.courseTags) \cup Range(importer.tags)
    \cup UNION { Range(disk.assets[i].tags) : i \in 1..Len(disk.assets) }

\* C22: on a dry run importTags calls tags.insert zero times and appends exactly one TAGS_IMPORTED
\* info entry, whose count is the number of distinct tag titles referenced by the package
\* (injected global tags included) that the tag store does not hold
C22_DryRunTagCount ==
  [][(TagStageStep /\ TagStoreRead /\ Truthy(settings.isDryRun)) =>
       /\ calls'.tags = calls.tags
       /\ importer'.statusReport.info =
            Append(importer.statusReport.info,
                   [code |-> "TAGS_IMPORTED", data |-> Cardinality(ReferencedTitles \ server.tags)])]_vars

\* the step returned without throwing
StepReturned == error' = NoError /\ idx' = idx + 1
\* what C23 asks of the state importTags leaves
TagsResolvedByStep ==
  LET storeIds == { TagId(t) : t \in server'.tags }
  IN /\ Range(importer'.tags) \subseteq storeIds
     /\ \A i \in 1..Len(importer'.assetData) : Range(importer'.assetData[i].tags) \subseteq storeIds
     /\ Range(importer'.newTagIds) = { TagId(t) : t \in server'.tags \ server.tags }
     /\ Len(importer'.newTagIds) = Cardinality(server'.tags \ server.tags)

\* C23: after importTags completes on a real run, every element of this.tags and of every
\* asset's tags is the _id of a tag of the tag store, also when the package has no assets, and
\* newTagIds holds exactly the ids of the tags this run created
C23_TagsResolved ==
  [][(TagStageStep /\ RealRun /\ StepReturned) => TagsResolvedByStep]_vars

\* the same for the runs whose package has an asset or whose request carries no tags
C23_ResolvedThroughAssets ==
  [][(TagStageStep /\ RealRun /\ StepReturned /\ (importer.assetData # <<>> \/ importer.tags = <<>>))
       => TagsResolvedByStep]_vars

\* the course document of this run is in the content store, inserted and updated
CoursePersisted ==
  /\ PersistedCourse \in server.created.courses
  /\ \E i \in 1..Len(calls.content) : calls.content[i].op = "update"
  /\ \A i \in 1..Len(server.rejected) : server.rejected[i].op # "update"

\* C24: the tag titles declared in the package's course document are resolved against the tag
\* store, the missing ones created, and the course is persisted with the corresponding tag ids
C24_CourseTagsPersisted ==
  (RealRun /\ CoursePersisted) =>
    \A t \in Range(disk.courseTags) : t \in server.tags /\ TagId(t) \in Range(server.courseTags)

(***************************************************************************)
(* Properties of prepare, migrateCourseData and loadCourseData             *)
(***************************************************************************)
\* the step of import() that invokes prepare
PrepareStep == stagesRun' = Append(stagesRun, "prepare")

\* C25: a prepare that has read package.json throws FW_IMPORT_INCOMPAT if and only if the package
\* version does not satisfy the framework's major version and migrateContent is false; when it
\* does not satisfy and migrateContent is true prepare appends exactly one MIGRATE_CONTENT info
\* entry and goes on; when it satisfies, neither happens
C25_IncompatOrMigrate ==
  [][(PrepareStep /\ importer'.pkgLoaded) =>
       /\ (error' = "FW_IMPORT_INCOMPAT" <=> (~disk.compatible /\ ~settings.migrateContent))
       /\ Entries(importer'.statusReport.info, "MIGRATE_CONTENT", 0)
            = (IF ~disk.compatible /\ settings.migrateContent THEN 1 ELSE 0)
       /\ ((~disk.compatible /\ settings.migrateContent) => error' \in {NoError, "SCHEMA_CONVERT_FAILED"})]_vars

C25_Witness ==
  /\ ~disk.compatible /\ settings.migrateContent
  /\ stagesRun = <<"prepare">> /\ idx = 2 /\ error = NoError
  /\ importer.statusReport.info = << [code |-> "MIGRATE_CONTENT", data |-> 0] >>

\* the step of import() that invokes migrateCourseData
MigrateStep == stagesRun' = Append(stagesRun, "migrateCourseData")

\* C26: when the capture, the migrate invocation or the removal of the capture directory fails,
\* migrateCourseData throws FW_IMPORT_MIGRATION_FAILED carrying the reason, and at that moment
\* this run has inserted no content document
C26_MigrationFailureIsFatal ==
  [][(MigrateStep /\ error' # NoError) =>
       /\ error' = "FW_IMPORT_MIGRATION_FAILED"
       /\ raised'.data \in { <<"capture">>, <<"migrate">>, <<"rm">> }
       /\ (raised'.data = <<"capture">> => ~disk'.captureDir /\ ~disk'.migrated)
       /\ (raised'.data = <<"migrate">> => ~disk'.migrated)
       /\ server'.content = {}
       /\ calls'.content = <<>>]_vars

C26_Witness ==
  /\ error = "FW_IMPORT_MIGRATION_FAILED"
  /\ raised.data = <<"migrate">>
  /\ server.assets # {}
  /\ server.content = {}

\* C27: on a real run with migrateContent, the course, the config and the content objects handed
\* to importCourseData were read from disk after migrateCourseData completed
C27_MigratedFilesAreImported ==
  (RealRun /\ settings.migrateContent /\ Ran("importCourseData")) =>
    /\ Ran("migrateCourseData")
    /\ contentJson.course.migrated
    /\ contentJson.config.migrated

\* the same for the course document and the content objects, which loadCourseData reads together
C27_CourseIsReloaded ==
  (RealRun /\ settings.migrateContent /\ Ran("importCourseData")) =>
    /\ Ran("migrateCourseData")
    /\ contentJson.course.migrated
    /\ contentJson.contentObjects = disk.objs

(***************************************************************************)
(* Properties of a dry run                                                 *)
(***************************************************************************)
CountCodes == {"TAGS_IMPORTED", "ASSETS_IMPORTED_SUCCESSFULLY", "CONTENT_IMPORTED"}
\* the count entries of a status report, in the order they were pushed
CountEntries(rep) == SelectSeq(rep.info, LAMBDA e : e.code \in CountCodes)
IsPrefix(p, q) == Len(p) <= Len(q) /\ \A i \in 1..Len(p) : p[i] = q[i]
\* the count entries as a function of the settings and of the package alone
DryRunCounts(s, d) ==
  IF s.importContent
    THEN << [code |-> "TAGS_IMPORTED", data |-> UndefinedCount],
            [code |-> "ASSETS_IMPORTED_SUCCESSFULLY", data |-> Len(d.assets)],
            [code |-> "CONTENT_IMPORTED", data |-> Len(d.objs) + 2] >>
    ELSE <<>>
StoreCalls == calls.content \o calls.assets \o calls.tags \o calls.contentplugin \o calls.courseassets
\* what the stores of a server hold
Stores(srv) == [plugins |-> srv.plugins, tags |-> srv.tags, assets |-> srv.assets, content |-> srv.content]

\* C28: the count entries a dry run reports are determined by the package and the settings, so
\* two dry runs over the same package and server report the same entries; a dry run calls no
\* writing operation of the content, asset, plugin and tag stores and leaves the server as it was
C28_DryRunsAgree ==
  settings.isDryRun = "true" =>
    /\ IsPrefix(CountEntries(importer.statusReport), DryRunCounts(settings, disk))
    /\ (pc = "done" /\ result.status = "resolved") =>
          CountEntries(importer.statusReport) = DryRunCounts(settings, disk)
    /\ StoreCalls = <<>>
    /\ Stores(server) = Stores(Server(Len(disk.assets)))

\* the same for the dry runs that resolve, which cleanUp has nothing to compensate for
C28_ResolvedDryRunsAgree ==
  (settings.isDryRun = "true" /\ error = NoError) =>
    /\ IsPrefix(CountEntries(importer.statusReport), DryRunCounts(settings, disk))
    /\ (pc = "done") => CountEntries(importer.statusReport) = DryRunCounts(settings, disk)
    /\ StoreCalls = <<>>
    /\ Stores(server) = Stores(Server(Len(disk.assets)))

(***************************************************************************)
(* Properties of getImportContentCounts                                    *)
(***************************************************************************)
CountsReturned == util.fn = "getImportContentCounts" /\ util.out # <<>>
\* the types of the documents of a content: the course if loaded, the config if loaded, the objects
DocTypes(content) ==
  (IF content.course._type # Undefined THEN << content.course._type >> ELSE <<>>)
  \o (IF content.hasConfig THEN << "config" >> ELSE <<>>)
  \o [i \in 1..Len(content.contentObjects) |-> content.contentObjects[i]._type]
RECURSIVE SumOf(_, _)
SumOf(f, S) == IF S = {} THEN 0 ELSE LET x == CHOOSE y \in S : TRUE IN f[x] + SumOf(f, S \ {x})
\* the content objects added in the order p
Reordered(content, p) ==
  [content EXCEPT !.contentObjects = [i \in 1..Len(@) |-> content.contentObjects[p[i]]]]

\* C29: getImportContentCounts returns for every _type the number of documents of that type among
\* the course, the config and the content objects, whatever the order the content objects were
\* added in, and the counts sum to the number of documents
C29_CountsByType ==
  CountsReturned =>
    LET docs == DocTypes(util.args)
        out == util.out[1]
    IN /\ DOMAIN out = Range(docs)
       /\ \A t \in DOMAIN out : out[t] = Cardinality({ i \in 1..Len(docs) : docs[i] = t })
       /\ SumOf(out, DOMAIN out) = Len(docs)
       /\ \A p \in Permutations(1..Len(util.args.contentObjects)) :
            getImportContentCounts(Reordered(util.args, p)) = out

\* C29 witness: a course, a config, two pages and a menu added in two different orders were counted
C29_Witness ==
  /\ CountsReturned
  /\ util.args.course._type = "course" /\ util.args.hasConfig
  /\ Len(util.args.contentObjects) = 3
  /\ util.args.contentObjects[1]._type = "page" /\ util.args.contentObjects[2]._type = "menu"
  /\ util.out[1]["page"] = 2 /\ util.out[1]["menu"] = 1 /\ util.out[1]["course"] = 1

(***************************************************************************)
(* Properties of the RemoveUndef migration                                 *)
(***************************************************************************)
Migrated == util.fn = "RemoveUndef" /\ util.out # <<>>
\* a null-valued property in the document or in an object nested in it
RECURSIVE HasNullProp(_)
HasNullProp(v) ==
  /\ v.kind = "object"
  /\ \E k \in DOMAIN v.props : v.props[k].kind = "null" \/ HasNullProp(v.props[k])
\* the values of the given kinds with the path of property names that leads to them
RECURSIVE At(_, _, _)
At(v, path, kinds) ==
  (IF v.kind \in kinds THEN { <<path, v>> } ELSE {})
  \cup (IF v.kind = "object"
          THEN UNION { At(v.props[k], Append(path, k), kinds) : k \in DOMAIN v.props }
          ELSE {})

\* C30: applying the migration to its own result changes nothing; the result has no null-valued
\* property in the document or its nested objects; every array is where it was with the elements
\* it had, nulls included; every 0, false and empty string is where it was
C30_RemoveUndefIdempotent ==
  Migrated =>
    LET out == util.out[1]
    IN /\ RemoveUndef(out) = out
       /\ ~HasNullProp(out)
       /\ At(out, <<>>, {"array"}) = At(util.args, <<>>, {"array"})
       /\ At(out, <<>>, {"zero", "false", "empty"}) = At(util.args, <<>>, {"zero", "false", "empty"})

\* C30 witness: a document with a null in a nested object, an array holding a null, and a falsy
\* value next to them has been migrated
C30_Witness ==
  /\ Migrated
  /\ HasNullProp(util.args)
  /\ \E e \in At(util.args, <<>>, {"object"}) : Len(e[1]) = MaxNest /\ HasNullProp(e[2])
  /\ \E e \in At(util.out[1], <<>>, {"array"}) : \E i \in 1..Len(e[2].items) : e[2].items[i].kind = "null"
  /\ \E e \in At(util.out[1], <<>>, {"zero"}) : Len(e[1]) = 1
  /\ util.out[1] # util.args

(***************************************************************************)
(* Properties of the status report                                         *)
(***************************************************************************)
\* C31: statusReport is append-only: every step of a run leaves the entries already in
\* statusReport.info and statusReport.warn where they are and as they are, and at most adds
\* entries at the end
C31_StatusReportAppendOnly ==
  [][/\ IsPrefix(importer.statusReport.info, importer'.statusReport.info)
     /\ IsPrefix(importer.statusReport.warn, importer'.statusReport.warn)]_vars

\* C31 witness: several stages have each added to the report
C31_Witness ==
  /\ Len(importer.statusReport.info) >= 3
  /\ Len(importer.statusReport.warn) >= 1
  /\ pc = "done"

(***************************************************************************)
(* Properties of a run that fails late, and of a dry run that fails        *)
(***************************************************************************)
\* every compensation operation cleanUp started has run to its end
Settled == rollback.started \subseteq (rollback.awaited \cup rollback.late)
\* nothing the run created is left in the stores
NothingLeft ==
  /\ server.tags \cap server.created.tags = {}
  /\ server.assets \cap server.created.assets = {}
  /\ \A d \in server.content : d._courseId \notin server.created.courses
  /\ \A p \in server.created.plugins : p \notin DOMAIN server.plugins
HookFailed == raised.value = "POST_IMPORT_HOOK_FAILED"

\* C33: when an observer of postImportHook throws after every stage has succeeded, import() rejects
\* with that error and the compensation of cleanUp removes the content, the assets, the tags and
\* the plugins the run created
C33_HookFailureRollsBack ==
  (pc = "done" /\ HookFailed /\ Settled) =>
    /\ result = [status |-> "rejected", value |-> "POST_IMPORT_HOOK_FAILED"]
    /\ NothingLeft

\* the same when the source is to be removed and no step of the compensation fails
C33_HookFailureCompensated ==
  (pc = "done" /\ HookFailed /\ Settled /\ settings.removeSource
     /\ rollback.failed = {} /\ ~rollback.aborted) =>
    /\ result = [status |-> "rejected", value |-> "POST_IMPORT_HOOK_FAILED"]
    /\ NothingLeft

\* the settings of the run with isDryRun false in place of undefined
AsRealRun == [settings EXCEPT !.isDryRun = "false"]

\* C34: a run constructed without isDryRun goes through the stages of the run with isDryRun false:
\* every entry of the task list it invokes is one that run invokes, and importCoursePlugins and
\* loadCourseData are executed at most once each
C34_UndefinedIsFalse ==
  /\ [](settings.isDryRun = Undefined =>
          /\ TimesRun("importCoursePlugins") <= 1
          /\ TimesRun("loadCourseData") <= 1)
  /\ [][(settings.isDryRun = Undefined /\ pc = "tasks" /\ idx <= Len(tasks(settings))
            /\ stagesRun' # stagesRun) =>
          ShouldRun(tasks(AsRealRun)[idx].test)]_vars

\* C36: on a dry run newContentPlugins, updatedContentPlugins, assetMap and newTagIds stay empty, and
\* when the dry run fails cleanUp calls no uninstallPlugin, restorePluginFromBackup, assets.delete,
\* tags.delete or content.deleteMany
C36_FailedDryRunCompensatesNothing ==
  settings.isDryRun = "true" =>
    /\ DOMAIN importer.newContentPlugins = {}
    /\ DOMAIN importer.updatedContentPlugins = {}
    /\ DOMAIN importer.assetMap = {}
    /\ importer.newTagIds = <<>>
    /\ Count(calls, "contentplugin", "uninstallPlugin") = 0
    /\ Count(calls, "contentplugin", "restorePluginFromBackup") = 0
    /\ Count(calls, "assets", "delete") = 0
    /\ Count(calls, "tags", "delete") = 0
    /\ Count(calls, "content", "deleteMany") = 0

\* the same without the plugins a dry run would update
C36_NothingElseCompensated ==
  settings.isDryRun = "true" =>
    /\ DOMAIN importer.newContentPlugins = {}
    /\ DOMAIN importer.assetMap = {}
    /\ importer.newTagIds = <<>>
    /\ Count(calls, "contentplugin", "uninstallPlugin") = 0
    /\ Count(calls, "assets", "delete") = 0
    /\ Count(calls, "tags", "delete") = 0
    /\ Count(calls, "content", "deleteMany") = 0

\* C37: when a tags.insert of the batch of importTags has failed while others were in flight, then
\* once the pending inserts and the compensation of cleanUp have run to their end, no tag the run
\* created is left in the tag store (the source is removed and no compensation step fails)
C37_NoTagSurvives ==
  (/\ pc = "done" /\ raised.value = "TAG_INSERT_FAILED"
   /\ inflight = {} /\ Settled
   /\ settings.removeSource /\ rollback.failed = {} /\ ~rollback.aborted) =>
    server.tags \cap server.created.tags = {}

\* under the same conditions the tags left are those whose insert completed after cleanUp had
\* read newTagIds: no deletion was started for them
C37_OnlyLateTagsSurvive ==
  (/\ pc = "done" /\ raised.value = "TAG_INSERT_FAILED"
   /\ inflight = {} /\ Settled
   /\ settings.removeSource /\ rollback.failed = {} /\ ~rollback.aborted) =>
    \A t \in server.tags \cap server.created.tags : Op("tags", "delete", TagId(t)) \notin rollback.started

\* the entry the step has put at the end of statusReport.info
LastInfo == importer'.statusReport.info[Len(importer'.statusReport.info)]

\* C38: the count of the ASSETS_IMPORTED_SUCCESSFULLY entry is the number of assets the stage
\* persisted on a real run, and the number of assets found in the package on a dry run
C38_AssetCountIsPersisted ==
  [][AssetStageStep =>
       /\ LastInfo.code = "ASSETS_IMPORTED_SUCCESSFULLY"
       /\ LastInfo.data = IF Truthy(settings.isDryRun) THEN Len(importer.assetData)
                          ELSE Cardinality(server'.assets \ server.assets)]_vars

\* the count is the number of assets found in the package on every run
C38_AssetCountIsDiscovered ==
  [][AssetStageStep =>
       /\ LastInfo.code = "ASSETS_IMPORTED_SUCCESSFULLY"
       /\ LastInfo.data = Len(importer.assetData)]_vars

\* C39: when migrateCourseData ends, by returning or by throwing, the capture directory of the run
\* does not exist under the framework directory
C39_CaptureDirRemoved ==
  [][MigrateStep => ~disk'.captureDir]_vars

\* the capture directory is gone whenever migrateCourseData returns
C39_CaptureDirRemovedOnReturn ==
  [][(MigrateStep /\ error' = NoError) => ~disk'.captureDir]_vars

(***************************************************************************)
(* Properties of the summary                                               *)
(***************************************************************************)
\* the entries of the summary for plugin p
EntriesFor(p) ==
  { i \in 1..Len(importer.summary.versions) : importer.summary.versions[i].name = p }
Untouched(p) == p \notin server.created.plugins /\ p \notin server.created.updated

\* C35: in the summary of a real run every plugin the package uses has exactly one entry; its
\* status is INSTALLED iff the run installed it, UPDATED iff the run overwrote it, and OLDER,
\* NO_CHANGE or UPDATE_BLOCKED iff the run left the installed plugin as it was
C35_SummaryAgreesWithImport ==
  (settings.isDryRun = "false" /\ importer.summary.generated) =>
    \A p \in DOMAIN importer.usedContentPlugins :
      /\ Cardinality(EntriesFor(p)) = 1
      /\ \A i \in EntriesFor(p) :
           LET status == importer.summary.versions[i].status
           IN /\ status = "INSTALLED" <=> p \in server.created.plugins
              /\ status = "UPDATED" <=> p \in server.created.updated
              /\ status \in {"OLDER", "NO_CHANGE", "UPDATE_BLOCKED"} <=> Untouched(p)

\* a plugin the run installed is listed twice, both times as unchanged
C35_InstalledListedTwice ==
  /\ settings.isDryRun = "false" /\ importer.summary.generated
  /\ \E p \in server.created.plugins :
       /\ Cardinality(EntriesFor(p)) = 2
       /\ \A i \in EntriesFor(p) : importer.summary.versions[i].status = "NO_CHANGE"

(***************************************************************************)
(* Properties of the build handler                                         *)
(***************************************************************************)
\* request r is answered by this step, its lookup having resolved
Answered(r) == util.reqs[r].pc = "retrieved" /\ util'.reqs[r].pc = "done"
\* the collection holds no document for the id, or one that has expired
MissingOrExpired(id) == NotFound(FirstOf(find(util.adaptbuilds, id)), util.now)

\* getHandler answers FW_BUILD_NOT_FOUND for a build that is missing or has expired, from the
\* cache or not
C40_RefusesMissingAndExpired ==
  [][\A r \in RequestIds :
       (Answered(r) /\ MissingOrExpired(util.reqs[r].id)) =>
          util'.reqs[r].res = "FW_BUILD_NOT_FOUND"]_vars

\* the document of a build that exists is read from the database at most once
C40_FoundIsReadOnce ==
  \A id \in BuildIds : Len(util.adaptbuilds[id]) > 0 => util.finds[id] <= 1

\* a missing document is never answered from the cache
C40_MissingIsNotCached ==
  /\ \A id \in BuildIds : CacheHit(util.buildCache, id) => Len(util.adaptbuilds[id]) > 0
  /\ \A r \in RequestIds : util.reqs[r].cached => Len(util.reqs[r].buildData) > 0

\* C40: getHandler answers FW_BUILD_NOT_FOUND whenever the build record is missing or its
\* expiresAt lies in the past, also for a record served from the cache; a record that exists is
\* read from the database at most once per id, and a missing record is never cached
C40_BuildHandlerUsesCache ==
  /\ C40_RefusesMissingAndExpired
  /\ []C40_FoundIsReadOnce
  /\ []C40_MissingIsNotCached

\* a cached record that has expired since it was read is refused
C40_CachedExpiredRefused ==
  \E r \in RequestIds :
    /\ util.reqs[r].pc = "done" /\ util.reqs[r].cached
    /\ util.reqs[r].res = "FW_BUILD_NOT_FOUND"
====
